---- MODULE Spec2Model ----
(***************************************************************************)
(* A model of the HydraTeams proxy (src/src/proxy.ts, src/src/logger.ts):  *)
(* the passthrough classifier, the per-request connection handler with its *)
(* 429 retry loop, the passthrough relay, the error paths and the session  *)
(* correlator.                                                             *)
(*                                                                         *)
(* Text is a sequence of atoms (a word or a separator each); a model name  *)
(* is a sequence of atoms too ("claude-" followed by the rest). The lead   *)
(* marker is two atoms with no space between them, the teammate phrase is  *)
(* three atoms with a space in the middle, as in the source's literals.    *)
(***************************************************************************)
EXTENDS Integers, Sequences, FiniteSets, TLC

VARIABLES config, conn, sessions, teammateIndex, totalRequests, probe

vars == <<config, conn, sessions, teammateIndex, totalRequests, probe>>

----------------------------------------------------------------------------
(* Text primitives of the platform, as the source uses them.               *)

\* String.prototype.includes: sub occurs in s as a contiguous run.
Includes(s, sub) ==
  \E i \in 0..(Len(s) - Len(sub)) : SubSeq(s, i + 1, i + Len(sub)) = sub

\* String.prototype.startsWith.
StartsWith(s, p) == Len(s) >= Len(p) /\ SubSeq(s, 1, Len(p)) = p

\* String.prototype.endsWith.
EndsWith(s, p) ==
  Len(s) >= Len(p) /\ SubSeq(s, Len(s) - Len(p) + 1, Len(s)) = p

\* Array.prototype.includes on a list of strings.
ListIncludes(list, x) == \E i \in DOMAIN list : list[i] = x

LowerAtom(a) ==
  CASE a = "The User" -> "the user"
    [] a = "Team Lead" -> "team lead"
    [] a = "Hydra:" -> "hydra:"
    [] OTHER -> a

\* String.prototype.toLowerCase.
ToLowerCase(s) == [i \in DOMAIN s |-> LowerAtom(s[i])]

\* Array.prototype.join(" ") over a list of strings.
RECURSIVE JoinSpace(_)
JoinSpace(parts) ==
  IF Len(parts) = 0 THEN <<>>
  ELSE IF Len(parts) = 1 THEN parts[1]
  ELSE parts[1] \o <<" ">> \o JoinSpace(Tail(parts))

\* Array.prototype.slice(0, n).
SliceFirst(s, n) == SubSeq(s, 1, IF Len(s) < n THEN Len(s) ELSE n)

Min(a, b) == IF a < b THEN a ELSE b

----------------------------------------------------------------------------
(* Literals of proxy.ts.                                                   *)

LEAD_MARKER == <<"hydra:", "lead">>
TEAMMATE_MARKER == <<"the user", " ", "team lead">>
NATIVE_PREFIX == <<"claude-">>
STAR == <<"*">>
LEAD == <<"lead">>

\* A URL is a sequence of atoms: the origin, then path atoms ("/" is one).
DEFAULT_OPENAI_URL == <<"https://api.openai.com", "/v1/chat/completions">>
CHATGPT_API_URL == <<"https://chatgpt.com", "/backend-api/codex/responses">>
DEFAULT_ANTHROPIC_BASE_URL == <<"https://api.anthropic.com">>

----------------------------------------------------------------------------
(* Request payloads.  A system value or a message content is one of        *)
(*   kind "undefined" : the field is absent (or of no text shape),         *)
(*   kind "string"    : a string (text),                                   *)
(*   kind "blocks"    : an array of blocks, each given by its text; the    *)
(*                      empty text stands for a block without text.        *)
(* A model is [defined, name]; an absent model has defined = FALSE.        *)

Undef == [kind |-> "undefined", text |-> <<>>, blocks |-> <<>>]
Str(t) == [kind |-> "string", text |-> t, blocks |-> <<>>]
Blocks(bs) == [kind |-> "blocks", text |-> <<>>, blocks |-> bs]

Model(n) == [defined |-> TRUE, name |-> n]
NoModel == [defined |-> FALSE, name |-> <<>>]

\* JavaScript truthiness of a model value (undefined and "" are falsy).
ModelTruthy(m) == m.defined /\ m.name # <<>>

\* JavaScript truthiness of a search text value: undefined and "" are falsy,
\* every array is truthy.
Truthy(v) ==
  CASE v.kind = "undefined" -> FALSE
    [] v.kind = "string" -> v.text # <<>>
    [] OTHER -> TRUE

\* value.includes(marker): String.prototype.includes on a string;
\* Array.prototype.includes on an array compares each element (a block
\* object) with the marker string by ===, which no block satisfies.
ValueIncludes(v, marker) ==
  CASE v.kind = "string" -> Includes(v.text, marker)
    [] OTHER -> FALSE

----------------------------------------------------------------------------
(* The classifier.                                                         *)

\* model.startsWith on an absent model raises a TypeError.
shouldPassthroughThrows(model, passthroughModels, searchText) ==
  /\ Len(passthroughModels) # 0
  /\ ListIncludes(passthroughModels, STAR)
  /\ ~model.defined

\* shouldPassthrough with the lead rule tried before the "*" rule.
shouldPassthroughLeadFirst(model, passthroughModels, searchText) ==
  IF Len(passthroughModels) = 0 THEN FALSE
  ELSE IF ListIncludes(passthroughModels, LEAD)
    THEN Truthy(searchText) /\ ValueIncludes(searchText, LEAD_MARKER)
  ELSE IF ListIncludes(passthroughModels, STAR)
    THEN StartsWith(model.name, NATIVE_PREFIX)
  ELSE model.defined /\ ListIncludes(passthroughModels, model.name)

shouldPassthrough(model, passthroughModels, searchText) ==
  IF Len(passthroughModels) = 0 THEN FALSE
  ELSE IF ListIncludes(passthroughModels, STAR)
    THEN StartsWith(model.name, NATIVE_PREFIX)
  ELSE IF ListIncludes(passthroughModels, LEAD)
    THEN Truthy(searchText) /\ ValueIncludes(searchText, LEAD_MARKER)
  ELSE model.defined /\ ListIncludes(passthroughModels, model.name)

\* baseUrl.replace(/\/+$/, "")
RECURSIVE StripTrailingSlashes(_)
StripTrailingSlashes(u) ==
  IF Len(u) > 0 /\ u[Len(u)] = "/"
    THEN StripTrailingSlashes(SubSeq(u, 1, Len(u) - 1))
    ELSE u

normalizeAnthropicMessagesUrl(baseUrl, countTokens) ==
  LET stripped == StripTrailingSlashes(baseUrl)
      messagesUrl == IF EndsWith(stripped, <<"/v1/messages">>)
                       THEN stripped
                       ELSE stripped \o <<"/v1/messages">>
  IN IF countTokens THEN messagesUrl \o <<"/count_tokens">> ELSE messagesUrl

extractSystemText(system) ==
  CASE system.kind = "string" -> system.text
    [] system.kind = "blocks" -> JoinSpace(system.blocks)
    [] OTHER -> <<>>

\* The text of the first three messages (proxy.ts, msgText).
ContentText(content) ==
  CASE content.kind = "string" -> content.text
    [] content.kind = "blocks" -> JoinSpace(content.blocks)
    [] OTHER -> <<>>

msgText(messages) ==
  LET first == SliceFirst(messages, 3)
  IN JoinSpace([i \in DOMAIN first |-> ContentText(first[i])])

\* RouteIsPassthrough without the teammate override.
RouteIsPassthroughNoOverride(isTeammate, model, passthroughModels, fullText) ==
  shouldPassthrough(model, passthroughModels, Str(fullText))

\* The isPassthrough local of the POST /v1/messages handler.
RouteIsPassthrough(isTeammate, model, passthroughModels, fullText) ==
  ~isTeammate /\ shouldPassthrough(model, passthroughModels, Str(fullText))

\* The routing decision of POST /v1/messages: the handler's locals between
\* the parse and the session identification.
MessagesRoute(cfg, req) ==
  LET systemText == extractSystemText(req.system)
      fullText == systemText \o <<" ">> \o msgText(req.messages)
      hasMarker == Includes(fullText, LEAD_MARKER)
      isTeammate == Includes(ToLowerCase(systemText), TEAMMATE_MARKER)
      throws == ~isTeammate
                /\ shouldPassthroughThrows(req.model, cfg.passthroughModels,
                                           Str(fullText))
      isPassthrough == ~throws
                       /\ RouteIsPassthrough(isTeammate, req.model,
                                             cfg.passthroughModels, fullText)
      isLeadPassthrough == ListIncludes(cfg.passthroughModels, LEAD) /\ hasMarker
      passthroughBaseUrl == IF isLeadPassthrough /\ cfg.leadBaseUrl # <<>>
                              THEN cfg.leadBaseUrl
                              ELSE DEFAULT_ANTHROPIC_BASE_URL
  IN [systemText |-> systemText,
      fullText |-> fullText,
      hasMarker |-> hasMarker,
      isTeammate |-> isTeammate,
      isStreaming |-> (req.stream # "false"),
      msgCount |-> Len(req.messages),
      toolCount |-> req.tools,
      throws |-> throws,
      isPassthrough |-> isPassthrough,
      isLeadPassthrough |-> isLeadPassthrough,
      url |-> normalizeAnthropicMessagesUrl(passthroughBaseUrl, FALSE)]

\* The routing decision of POST /v1/messages/count_tokens.
CountTokensRoute(cfg, req) ==
  LET passthrough == ModelTruthy(req.model)
                     /\ shouldPassthrough(req.model, cfg.passthroughModels,
                                          req.system)
      systemText == extractSystemText(req.system)
      isLeadPassthrough == ListIncludes(cfg.passthroughModels, LEAD)
                           /\ Includes(systemText, LEAD_MARKER)
      passthroughBaseUrl == IF isLeadPassthrough /\ cfg.leadBaseUrl # <<>>
                              THEN cfg.leadBaseUrl
                              ELSE DEFAULT_ANTHROPIC_BASE_URL
  IN [isPassthrough |-> passthrough,
      url |-> normalizeAnthropicMessagesUrl(passthroughBaseUrl, TRUE)]

----------------------------------------------------------------------------
(* The session correlator (logger.ts).  The session table is a Map, kept   *)
(* here in insertion order; a key is <<"WARM", 0>>, <<"LEAD", 0>> or       *)
(* <<"T", n>>.                                                             *)

WARM_KEY == <<"WARM", 0>>
LEAD_KEY == <<"LEAD", 0>>
TeammateKey(n) == <<"T", n>>
NoSession == <<"", 0>>

SessionIndex(sess, key) ==
  IF \E i \in DOMAIN sess : sess[i].key = key
    THEN CHOOSE i \in DOMAIN sess : sess[i].key = key
    ELSE 0

\* ProxyLogger.getOrCreate: the table after the call.
getOrCreate(sess, key, type, msgCount) ==
  LET i == SessionIndex(sess, key)
      created == IF i = 0
                   THEN Append(sess, [key |-> key, type |-> type,
                                      lastMsgCount |-> msgCount,
                                      requestCount |-> 0])
                   ELSE sess
      j == IF i = 0 THEN Len(created) ELSE i
  IN [created EXCEPT ![j].lastMsgCount = msgCount,
                     ![j].requestCount = @ + 1]

\* BestMatch without the comparison with bestDiff: the last teammate
\* session in range wins.
RECURSIVE BestMatchLast(_, _, _, _)
BestMatchLast(sess, msgCount, i, best) ==
  IF i > Len(sess) THEN best
  ELSE LET diff == msgCount - sess[i].lastMsgCount
           better == /\ sess[i].type = "teammate"
                     /\ diff >= 0
                     /\ diff <= 8
       IN BestMatchLast(sess, msgCount, i + 1, IF better THEN i ELSE best)

\* BestMatch taking a session up to 8 messages away on either side of
\* the request's count.
RECURSIVE BestMatchEitherSide(_, _, _, _)
BestMatchEitherSide(sess, msgCount, i, best) ==
  IF i > Len(sess) THEN best
  ELSE LET diff == msgCount - sess[i].lastMsgCount
           better == /\ sess[i].type = "teammate"
                     /\ diff >= -8
                     /\ diff <= 8
                     /\ (best = 0 \/ diff < msgCount - sess[best].lastMsgCount)
       IN BestMatchEitherSide(sess, msgCount, i + 1,
                              IF better THEN i ELSE best)

\* The scan of identify for the nearest teammate session: the index of the
\* best match among sess[i..], given the best found so far (0: none).
RECURSIVE BestMatch(_, _, _, _)
BestMatch(sess, msgCount, i, best) ==
  IF i > Len(sess) THEN best
  ELSE LET diff == msgCount - sess[i].lastMsgCount
           better == /\ sess[i].type = "teammate"
                     /\ diff >= 0
                     /\ diff <= 8
                     /\ (best = 0 \/ diff < msgCount - sess[best].lastMsgCount)
       IN BestMatch(sess, msgCount, i + 1, IF better THEN i ELSE best)

\* identify looking at isTeammate before toolCount.
identifyTeammateFirst(sess, tIndex, info) ==
  IF info.isTeammate
    THEN LET best == BestMatch(sess, info.msgCount, 1, 0)
         IN IF best # 0
              THEN [sessions |-> [sess EXCEPT ![best].lastMsgCount = info.msgCount,
                                              ![best].requestCount = @ + 1],
                    teammateIndex |-> tIndex, key |-> sess[best].key]
              ELSE [sessions |-> getOrCreate(sess, TeammateKey(tIndex + 1),
                                             "teammate", info.msgCount),
                    teammateIndex |-> tIndex + 1,
                    key |-> TeammateKey(tIndex + 1)]
  ELSE IF info.toolCount = 0
    THEN [sessions |-> getOrCreate(sess, WARM_KEY, "warmup", info.msgCount),
          teammateIndex |-> tIndex, key |-> WARM_KEY]
  ELSE [sessions |-> getOrCreate(sess, LEAD_KEY, "lead", info.msgCount),
        teammateIndex |-> tIndex, key |-> LEAD_KEY]

\* ProxyLogger.identify: the table, the teammate index and the session key
\* after the call.
identify(sess, tIndex, info) ==
  IF info.toolCount = 0
    THEN [sessions |-> getOrCreate(sess, WARM_KEY, "warmup", info.msgCount),
          teammateIndex |-> tIndex, key |-> WARM_KEY]
  ELSE IF ~info.isTeammate
    THEN [sessions |-> getOrCreate(sess, LEAD_KEY, "lead", info.msgCount),
          teammateIndex |-> tIndex, key |-> LEAD_KEY]
  ELSE LET best == BestMatch(sess, info.msgCount, 1, 0)
       IN IF best # 0
            THEN [sessions |-> [sess EXCEPT ![best].lastMsgCount = info.msgCount,
                                            ![best].requestCount = @ + 1],
                  teammateIndex |-> tIndex, key |-> sess[best].key]
            ELSE [sessions |-> getOrCreate(sess, TeammateKey(tIndex + 1),
                                           "teammate", info.msgCount),
                  teammateIndex |-> tIndex + 1,
                  key |-> TeammateKey(tIndex + 1)]

----------------------------------------------------------------------------
(* The response object of one request (http.ServerResponse) and the        *)
(* handler's locals.  out is what reached the client socket.               *)

(* Handler locals: pc (the await the handler is suspended at), endpoint,    *)
(* body (valid: JSON.parse succeeds; isNull: it returns null), route,      *)
(* isStreaming, url, session,                                              *)
(* attempt, upstream (the last Response), rd (reads of the relay loop      *)
(* that returned a chunk), arrived (the pending reader.read() has          *)
(* settled), released (reader.releaseLock() called).                       *)
(* Response object: headersSent, status, ended (writableEnded), destroyed, *)
(* threw (an exception of the response object is in flight).               *)
(* History, read by the properties only: out, headCalls, lateHeadCalls     *)
(* (writeHead calls made with the head already sent), endCalls, calls (the *)
(* URL of every fetch), hist (the status of every upstream answer), waits  *)
(* (every backoff delay), log, translated (calls of the request            *)
(* translator), failure (the message of the exception caught, if any),     *)
(* failedAfterHead (the head was sent when it was caught), json (every     *)
(* upstream body upstream.json() returned).                                *)

NoUpstream == [status |-> 0, hasBody |-> FALSE, chunks |-> <<>>]

NullReq == [model |-> NoModel, system |-> Undef, messages |-> <<>>,
            stream |-> "absent", tools |-> 0]

IdleConn ==
  [pc |-> "idle", endpoint |-> "none",
   body |-> [valid |-> FALSE, isNull |-> FALSE, req |-> NullReq],
   route |-> "none", isStreaming |-> FALSE, url |-> <<>>,
   session |-> NoSession,
   attempt |-> 0, upstream |-> NoUpstream, rd |-> 0, released |-> FALSE,
   headersSent |-> FALSE, status |-> 0, ended |-> FALSE, destroyed |-> FALSE,
   out |-> <<>>, threw |-> FALSE,
   headCalls |-> 0, lateHeadCalls |-> 0, endCalls |-> 0,
   calls |-> <<>>, hist |-> <<>>, waits |-> <<>>, log |-> <<>>,
   translated |-> 0, failure |-> "none", failedAfterHead |-> FALSE,
   json |-> <<>>, arrived |-> FALSE]

\* Bodies the handler writes.
ErrorBody(errType, message) ==
  [type |-> "error", errType |-> errType, message |-> message]
TokensBody(n) == [type |-> "tokens", input_tokens |-> n]
ChunkBody(data) == [type |-> "chunk", data |-> data]
JsonBody(what) == [type |-> "json", what |-> what]

\* res.writeHead: raises ERR_HTTP_HEADERS_SENT when the head is out already.
WriteHead(r, status) ==
  IF r.headersSent
    THEN [r EXCEPT !.threw = TRUE, !.lateHeadCalls = @ + 1]
    ELSE [r EXCEPT !.headersSent = TRUE, !.status = status,
                   !.headCalls = @ + 1]

\* res.end(payload): a destroyed socket drops the bytes.
End(r, payload) ==
  [r EXCEPT !.ended = TRUE, !.endCalls = @ + 1,
            !.out = IF r.destroyed THEN @ ELSE Append(@, payload)]

\* res.end()
EndEmpty(r) == [r EXCEPT !.ended = TRUE, !.endCalls = @ + 1]

\* res.write(value)
Write(r, payload) ==
  [r EXCEPT !.out = IF r.destroyed THEN @ ELSE Append(@, payload)]

\* safeEnd(res) and safeEnd(res, payload)
safeEnd(r) == IF r.ended \/ r.destroyed THEN r ELSE EndEmpty(r)
safeEndWith(r, payload) == IF r.ended \/ r.destroyed THEN r ELSE End(r, payload)

\* res.writeHead(status, ...); res.end(JSON.stringify(payload))
Respond(r, status, payload) ==
  LET h == WriteHead(r, status)
  IN IF h.threw THEN h ELSE End(h, payload)

LogEntry(kind, n, ms) == [kind |-> kind, n |-> n, ms |-> ms]

Done(r) == [r EXCEPT !.pc = "done"]

\* CatchMain answering 400.
CatchMainBadRequest(r, message) ==
  LET l == [r EXCEPT !.log = Append(@, LogEntry("proxy-error", 0, 0)),
                     !.failure = message,
                     !.failedAfterHead = r.headersSent]
  IN IF l.ended \/ l.destroyed THEN Done(l)
     ELSE IF ~l.headersSent
       THEN Done(safeEndWith(WriteHead(l, 400),
                             ErrorBody("invalid_request_error", message)))
     ELSE Done(safeEnd(l))

\* The catch block of the POST /v1/messages handler.
CatchMain(r, message) ==
  LET l == [r EXCEPT !.log = Append(@, LogEntry("proxy-error", 0, 0)),
                     !.failure = message,
                     !.failedAfterHead = r.headersSent]
  IN IF l.ended \/ l.destroyed THEN Done(l)
     ELSE IF ~l.headersSent
       THEN Done(safeEndWith(WriteHead(l, 500), ErrorBody("api_error", message)))
     ELSE Done(safeEnd(l))

\* The catch block of the POST /v1/messages/count_tokens handler: an
\* exception it raises itself leaves the handler's promise rejected.
CatchCountTokens(r, message) ==
  LET l == [r EXCEPT !.failure = message, !.failedAfterHead = r.headersSent]
      w == Respond(l, 200, TokensBody(1000))
  IN IF w.threw THEN [w EXCEPT !.pc = "unhandled"] ELSE Done(w)

\* A throw inside the try of the handler of the connection's endpoint.
Catch(r, message) ==
  IF r.endpoint = "count_tokens" THEN CatchCountTokens(r, message)
  ELSE CatchMain(r, message)

\* The end of a synchronous stretch inside the try: an exception raised by
\* the response object goes to the catch block.
Try(r) ==
  IF r.threw THEN Catch([r EXCEPT !.threw = FALSE], "ERR_HTTP_HEADERS_SENT")
  ELSE r

----------------------------------------------------------------------------
(* Inputs.                                                                 *)

ClaudeX == Model(<<"claude-", "x">>)
Gpt == Model(<<"gpt">>)
XClaude == Model(<<"x", "claude-">>)
NamedLead == Model(<<"lead">>)

TX == <<"x">>
TTeammate == TEAMMATE_MARKER
TTeammateUpper == <<"The User", " ", "Team Lead">>
TBoth == LEAD_MARKER \o <<" ">> \o TEAMMATE_MARKER
TUpperMarker == <<"Hydra:", "lead">>

AltLeadBaseUrl == <<"https://lead.example", "/", "/">>

\* HTTP statuses an upstream answers with.
Statuses == {200, 201, 400, 401, 403, 429, 500, 503}

MaxChunks == 2
ChunkData == {"a", "b"}
ChunkSeqs == UNION {[1..n -> ChunkData] : n \in 0..MaxChunks}

\* Configurations of the handler specification.
HandlerConfigs ==
  {[targetProvider |-> p, passthroughModels |-> pm, leadBaseUrl |-> lb,
    targetUrl |-> <<>>, targetModel |-> "gpt-target", spoofModel |-> "spoof"] :
     p \in {"openai", "chatgpt"},
     pm \in {<<>>, <<LEAD>>, <<STAR>>},
     lb \in {<<>>, AltLeadBaseUrl}}

\* A text of 370 characters: one user message holding it serializes to 400.
LongText == [i \in 1..74 |-> IF i % 2 = 1 THEN "hydra:" ELSE "lead"]

Req(model, system, messages, stream, tools) ==
  [model |-> model, system |-> system, messages |-> messages,
   stream |-> stream, tools |-> tools]

\* Requests of the handler specification.
HandlerRequests ==
  {Req(ClaudeX, Str(LEAD_MARKER), <<Str(TX)>>, "absent", 1),
   Req(Gpt, Str(TX), <<Str(TX)>>, "false", 1),
   Req(ClaudeX, Str(TBoth), <<Str(TX), Str(TX)>>, "true", 2),
   Req(ClaudeX, Blocks(<<TX, LEAD_MARKER>>), <<>>, "false", 1),
   Req(NoModel, Undef, <<>>, "absent", 0),
   Req(Gpt, Str(TTeammate), <<Str(LEAD_MARKER)>>, "false", 0),
   Req(Gpt, Undef, <<Str(LongText)>>, "false", 0)}

\* A body is text that JSON.parse rejects (valid = FALSE), the text "null"
\* (JSON.parse returns null, and reading a property of it raises a
\* TypeError), or the text of an object.
HandlerBodies ==
  {[valid |-> TRUE, isNull |-> FALSE, req |-> q] : q \in HandlerRequests}
    \cup {[valid |-> FALSE, isNull |-> FALSE, req |-> NullReq],
          [valid |-> TRUE, isNull |-> TRUE, req |-> NullReq]}

\* The connections of a specification.
AllConns == {1, 2}

\* The concurrent specification serves two connections at once, with fewer
\* requests and upstream answers to draw from.
Concurrent == probe.stage = "concurrent"

ConcurrentBodies ==
  {[valid |-> TRUE, isNull |-> FALSE, req |-> q] :
     q \in {Req(ClaudeX, Str(LEAD_MARKER), <<Str(TX)>>, "absent", 1),
            Req(Gpt, Str(TX), <<Str(TX)>>, "false", 1),
            Req(ClaudeX, Str(TBoth), <<Str(TX), Str(TX)>>, "true", 2)}}

Bodies == IF Concurrent THEN ConcurrentBodies ELSE HandlerBodies
Endpoints == IF Concurrent THEN {"messages"} ELSE {"messages", "count_tokens"}
UpstreamStatuses == IF Concurrent THEN {200, 429, 500} ELSE Statuses
UpstreamChunkSeqs == IF Concurrent THEN {<<>>, <<"a">>} ELSE ChunkSeqs

----------------------------------------------------------------------------
(* The length of JSON.stringify(parsed.messages || []) for messages of     *)
(* role "user" whose text needs no escaping.                               *)

AtomLen(a) ==
  CASE a = "hydra:" -> 6
    [] a = "Hydra:" -> 6
    [] a = "lead" -> 4
    [] a = "the user" -> 8
    [] a = "The User" -> 8
    [] a = "team lead" -> 9
    [] a = "Team Lead" -> 9
    [] OTHER -> 1

RECURSIVE TextLen(_)
TextLen(t) == IF t = <<>> THEN 0 ELSE AtomLen(Head(t)) + TextLen(Tail(t))

RECURSIVE BlocksJsonLen(_)
BlocksJsonLen(bs) ==
  IF bs = <<>> THEN 0
  ELSE 25 + TextLen(Head(bs)) + (IF Len(bs) > 1 THEN 1 ELSE 0)
       + BlocksJsonLen(Tail(bs))

MessageJsonLen(content) ==
  CASE content.kind = "string" -> 26 + 2 + TextLen(content.text)
    [] content.kind = "blocks" -> 26 + 2 + BlocksJsonLen(content.blocks)
    [] OTHER -> 15

RECURSIVE MessageListJsonLen(_)
MessageListJsonLen(ms) ==
  IF ms = <<>> THEN 0
  ELSE MessageJsonLen(Head(ms)) + (IF Len(ms) > 1 THEN 1 ELSE 0)
       + MessageListJsonLen(Tail(ms))

MessagesJsonLength(messages) == 2 + MessageListJsonLen(messages)

\* estimatedTokens rounding down.
estimatedTokensFloor(messages) == MessagesJsonLength(messages) \div 4

\* Math.ceil(length / 4)
estimatedTokens(messages) == (MessagesJsonLength(messages) + 3) \div 4

----------------------------------------------------------------------------
(* The connection handler (createProxyServer).  Each action runs the       *)
(* handler from one await to the next.                                     *)

Finish(w) == IF w.threw THEN Try(w) ELSE Done(w)

Others == <<config, probe>>
LoggerState == <<sessions, teammateIndex, totalRequests>>

\* A request arrives; the handler awaits its body.
Receive(c) ==
  /\ conn[c].pc = "idle"
  /\ \E ep \in Endpoints, b \in Bodies :
       conn' = [conn EXCEPT ![c] = [@ EXCEPT !.pc = "readBody",
                                             !.endpoint = ep, !.body = b]]
  /\ UNCHANGED <<Others, LoggerState>>

\* GET / and GET /health
Health(c) ==
  /\ conn[c].pc = "idle"
  /\ LET w == Respond([conn[c] EXCEPT !.endpoint = "health"], 200,
                      JsonBody("health"))
     IN conn' = [conn EXCEPT ![c] = IF w.threw THEN [w EXCEPT !.pc = "unhandled"]
                                    ELSE Done(w)]
  /\ UNCHANGED <<Others, LoggerState>>

\* Any other method or path.
NotFound(c) ==
  /\ conn[c].pc = "idle"
  /\ LET w == Respond([conn[c] EXCEPT !.endpoint = "other"], 404,
                      JsonBody("not_found"))
     IN conn' = [conn EXCEPT ![c] = IF w.threw THEN [w EXCEPT !.pc = "unhandled"]
                                    ELSE Done(w)]
  /\ UNCHANGED <<Others, LoggerState>>

\* POST /v1/messages/count_tokens once the body is read.
CountTokensBody(c) ==
  /\ conn[c].pc = "readBody"
  /\ conn[c].endpoint = "count_tokens"
  /\ LET r == conn[c]
         d == CountTokensRoute(config, r.body.req)
     IN conn' = [conn EXCEPT ![c] =
          IF ~r.body.valid THEN Catch(r, "JSON.parse")
          ELSE IF r.body.isNull THEN Catch(r, "TypeError")
          ELSE IF d.isPassthrough
            THEN [r EXCEPT !.pc = "pt_fetch", !.route = "passthrough",
                           !.url = d.url]
          ELSE Finish(Respond([r EXCEPT !.route = "estimate"], 200,
                              TokensBody(estimatedTokens(r.body.req.messages))))]
  /\ UNCHANGED <<Others, LoggerState>>

\* MessagesBodyResult routing a request by the session it was attributed
\* to: a lead's request is passed through.
MessagesBodyResultBySession(r, cfg, sess, tIndex, total, translatorThrows) ==
  LET d == MessagesRoute(cfg, r.body.req)
      id == identify(sess, tIndex,
                     [toolCount |-> d.toolCount, msgCount |-> d.msgCount,
                      isTeammate |-> d.isTeammate])
      pass == id.key = LEAD_KEY /\ Len(sess) > 0
      r1 == [r EXCEPT !.session = id.key,
                      !.isStreaming = d.isStreaming,
                      !.route = IF pass THEN "passthrough" ELSE "translate",
                      !.log = Append(@, LogEntry("request", 0, 0))]
      r2 == [r1 EXCEPT !.translated = @ + 1]
  IN IF ~r.body.valid \/ r.body.isNull \/ d.throws
       THEN [conn |-> CatchMain(r, IF ~r.body.valid THEN "JSON.parse"
                                   ELSE "TypeError"),
             sessions |-> sess, teammateIndex |-> tIndex,
             totalRequests |-> total]
       ELSE [conn |->
               IF pass
                 THEN [r1 EXCEPT !.pc = "pt_fetch", !.url = d.url]
               ELSE IF translatorThrows
                 THEN CatchMain(r2, "translate")
               ELSE IF cfg.targetProvider = "chatgpt"
                 THEN [r2 EXCEPT !.pc = "chatgpt_fetch",
                                 !.url = CHATGPT_API_URL,
                                 !.attempt = 0]
               ELSE [r2 EXCEPT !.pc = "openai_fetch",
                               !.url = IF cfg.targetUrl # <<>>
                                         THEN cfg.targetUrl
                                         ELSE DEFAULT_OPENAI_URL,
                               !.attempt = 0],
             sessions |-> id.sessions, teammateIndex |-> id.teammateIndex,
             totalRequests |-> total + 1]

\* POST /v1/messages once the body is read: parse, route, identify the
\* session, log the request, translate the request.  The handler's record,
\* the session table and the logger's counters after it, from the table sess,
\* tIndex, total and the routing locals d.
MessagesBodyRouted(r, cfg, sess, tIndex, total, translatorThrows, d) ==
  LET id == identify(sess, tIndex,
                     [toolCount |-> d.toolCount, msgCount |-> d.msgCount,
                      isTeammate |-> d.isTeammate])
      r1 == [r EXCEPT !.session = id.key,
                      !.isStreaming = d.isStreaming,
                      !.route = IF d.isPassthrough THEN "passthrough"
                                ELSE "translate",
                      !.log = Append(@, LogEntry("request", 0, 0))]
      r2 == [r1 EXCEPT !.translated = @ + 1]
  IN IF ~r.body.valid \/ r.body.isNull \/ d.throws
       THEN [conn |-> CatchMain(r, IF ~r.body.valid THEN "JSON.parse"
                                   ELSE "TypeError"),
             sessions |-> sess, teammateIndex |-> tIndex,
             totalRequests |-> total]
       ELSE [conn |->
               IF d.isPassthrough
                 THEN [r1 EXCEPT !.pc = "pt_fetch", !.url = d.url]
               ELSE IF translatorThrows
                 THEN CatchMain(r2, "translate")
               ELSE IF cfg.targetProvider = "chatgpt"
                 THEN [r2 EXCEPT !.pc = "chatgpt_fetch",
                                 !.url = CHATGPT_API_URL,
                                 !.attempt = 0]
               ELSE [r2 EXCEPT !.pc = "openai_fetch",
                               !.url = IF cfg.targetUrl # <<>>
                                         THEN cfg.targetUrl
                                         ELSE DEFAULT_OPENAI_URL,
                               !.attempt = 0],
             sessions |-> id.sessions, teammateIndex |-> id.teammateIndex,
             totalRequests |-> total + 1]

\* The routing locals are computed once, then the rest of the step.
MessagesBodyResult(r, cfg, sess, tIndex, total, translatorThrows) ==
  CHOOSE res \in {MessagesBodyRouted(r, cfg, sess, tIndex, total,
                                     translatorThrows, d) :
                    d \in {MessagesRoute(cfg, r.body.req)}} : TRUE

MessagesBody(c) ==
  /\ conn[c].pc = "readBody"
  /\ conn[c].endpoint = "messages"
  /\ \E translatorThrows \in BOOLEAN :
       LET res == MessagesBodyResult(conn[c], config, sessions, teammateIndex,
                                     totalRequests, translatorThrows)
       IN /\ conn' = [conn EXCEPT ![c] = res.conn]
          /\ sessions' = res.sessions
          /\ teammateIndex' = res.teammateIndex
          /\ totalRequests' = res.totalRequests
  /\ UNCHANGED Others

----------------------------------------------------------------------------
(* handlePassthrough                                                       *)

\* RelayChunk writing the first chunk again.
RelayChunkFirst(upstream, read) == upstream.chunks[1]

\* The chunk the relay loop writes for the read-th read of the body.
RelayChunk(upstream, read) == upstream.chunks[read]

\* await fetch(upstreamUrl, ...), then the head.
PassthroughFetch(c) ==
  /\ conn[c].pc = "pt_fetch"
  /\ LET r == [conn[c] EXCEPT !.calls = Append(@, conn[c].url)]
     IN \/ conn' = [conn EXCEPT ![c] = Catch(r, "fetch failed")]
        \/ \E s \in UpstreamStatuses, hasBody \in BOOLEAN,
              chunks \in UpstreamChunkSeqs :
             /\ (~hasBody => chunks = <<>>)
             /\ LET r1 == [r EXCEPT !.hist = Append(@, s),
                                    !.upstream = [status |-> s,
                                                  hasBody |-> hasBody,
                                                  chunks |-> chunks]]
                    r2 == IF r.endpoint = "messages" /\ s >= 400
                            THEN [r1 EXCEPT !.log =
                                    Append(@, LogEntry("passthrough-error", s, 0))]
                            ELSE r1
                    h == WriteHead(r2, s)
                IN conn' = [conn EXCEPT ![c] =
                     IF h.threw THEN Try(h)
                     ELSE IF ~hasBody THEN Done(safeEnd(h))
                     ELSE [h EXCEPT !.pc = "pt_read", !.rd = 0]]
  /\ UNCHANGED <<Others, LoggerState>>

\* The upstream delivers a chunk, ends its body or fails: the pending
\* reader.read() settles.
UpstreamDelivers(c) ==
  /\ conn[c].pc = "pt_read"
  /\ ~conn[c].arrived
  /\ conn' = [conn EXCEPT ![c] = [@ EXCEPT !.arrived = TRUE]]
  /\ UNCHANGED <<Others, LoggerState>>

\* The relay loop resumes after await reader.read() has settled, with the
\* finally block when the loop ends.
PassthroughRead(c) ==
  /\ conn[c].pc = "pt_read"
  /\ conn[c].arrived
  /\ LET r == [conn[c] EXCEPT !.arrived = FALSE]
         finally == safeEnd([r EXCEPT !.released = TRUE])
     IN \/ conn' = [conn EXCEPT ![c] =
               IF r.rd = Len(r.upstream.chunks) THEN Done(finally)
               ELSE IF r.ended \/ r.destroyed THEN Done(finally)
               ELSE [Write(r, ChunkBody(RelayChunk(r.upstream, r.rd + 1)))
                       EXCEPT !.rd = @ + 1]]
        \/ conn' = [conn EXCEPT ![c] = Catch(finally, "read failed")]
  /\ UNCHANGED <<Others, LoggerState>>

----------------------------------------------------------------------------
(* The translate branches.                                                 *)

\* Response.ok
Ok(status) == status >= 200 /\ status <= 299

\* upstream?.status || 500
StatusOr500(status) == IF status = 0 THEN 500 ELSE status

MAX_RETRIES_CHATGPT == 5
MAX_RETRIES_OPENAI == 5

\* The ChatGPT branch after its retry loop, up to the next await.
ChatgptAfterLoop(r) ==
  IF ~Ok(r.upstream.status) THEN [r EXCEPT !.pc = "chatgpt_text"]
  ELSE IF ~r.upstream.hasBody
    THEN Finish(Respond([r EXCEPT !.log = Append(@, LogEntry("no-body", 0, 0))],
                        500, ErrorBody("api_error", "No response body")))
  ELSE LET h == WriteHead(r, 200)
       IN IF h.threw THEN Try(h) ELSE [h EXCEPT !.pc = "chatgpt_stream"]

\* OpenaiAfterLoop without the test for a missing body.
OpenaiAfterLoopNoBodyTest(r) ==
  IF ~Ok(r.upstream.status) THEN [r EXCEPT !.pc = "openai_text"]
  ELSE IF ~r.isStreaming THEN [r EXCEPT !.pc = "openai_json"]
  ELSE LET h == WriteHead(r, 200)
       IN IF h.threw THEN Try(h) ELSE [h EXCEPT !.pc = "openai_stream"]

\* The OpenAI branch after its retry loop, up to the next await.
OpenaiAfterLoop(r) ==
  IF ~Ok(r.upstream.status) THEN [r EXCEPT !.pc = "openai_text"]
  ELSE IF ~r.isStreaming THEN [r EXCEPT !.pc = "openai_json"]
  ELSE IF ~r.upstream.hasBody
    THEN Finish(Respond([r EXCEPT !.log = Append(@, LogEntry("no-body", 0, 0))],
                        500, ErrorBody("api_error", "No response body")))
  ELSE LET h == WriteHead(r, 200)
       IN IF h.threw THEN Try(h) ELSE [h EXCEPT !.pc = "openai_stream"]

\* Math.min(1000 * Math.pow(2, attempt), 10000) of the Chatgpt retry loop.
ChatgptWaitMs(attempt) == Min(1000 * (2 ^ attempt), 10000)

\* ChatgptRetries retrying every response that is not a success.
ChatgptRetriesOnError(status) == ~Ok(status)

\* The loop of the Chatgpt branch goes on after a response of this status.
ChatgptRetries(status) == status = 429

\* One await fetch(...) of the Chatgpt retry loop, with what follows it up to
\* the next await: the backoff, or the code after the loop.
ChatgptFetch(c) ==
  /\ conn[c].pc = "chatgpt_fetch"
  /\ LET r == [conn[c] EXCEPT !.calls = Append(@, conn[c].url)]
     IN \/ conn' = [conn EXCEPT ![c] = CatchMain(r, "fetch failed")]
        \/ \E s \in UpstreamStatuses, hasBody \in BOOLEAN :
             LET r1 == [r EXCEPT !.hist = Append(@, s),
                                 !.upstream = [status |-> s,
                                               hasBody |-> hasBody,
                                               chunks |-> <<>>]]
                 waitMs == ChatgptWaitMs(r.attempt)
                 \* the loop is left by break, or by attempt++ past the bound
                 r3 == IF ChatgptRetries(s)
                         THEN [r1 EXCEPT !.attempt = @ + 1]
                         ELSE r1
             IN conn' = [conn EXCEPT ![c] =
                  IF ChatgptRetries(s) /\ r.attempt < MAX_RETRIES_CHATGPT
                    THEN [r1 EXCEPT !.pc = "chatgpt_wait",
                                    !.waits = Append(@, waitMs),
                                    !.log = Append(@, LogEntry("retry",
                                                   r.attempt + 1, waitMs))]
                  ELSE ChatgptAfterLoop(r3)]
  /\ UNCHANGED <<Others, LoggerState>>

\* The backoff timer of the Chatgpt retry loop fires: attempt++ and the next
\* iteration.
ChatgptBackoff(c) ==
  /\ conn[c].pc = "chatgpt_wait"
  /\ conn' = [conn EXCEPT ![c] = [@ EXCEPT !.pc = "chatgpt_fetch",
                                           !.attempt = @ + 1]]
  /\ UNCHANGED <<Others, LoggerState>>

\* OpenaiWaitMs without the cap.
OpenaiWaitMsUncapped(attempt) == 1000 * (2 ^ attempt)

\* Math.min(1000 * Math.pow(2, attempt), 10000) of the Openai retry loop.
OpenaiWaitMs(attempt) == Min(1000 * (2 ^ attempt), 10000)

\* The loop of the Openai branch goes on after a response of this status.
OpenaiRetries(status) == status = 429

\* One await fetch(...) of the Openai retry loop, with what follows it up to
\* the next await: the backoff, or the code after the loop.
OpenaiFetch(c) ==
  /\ conn[c].pc = "openai_fetch"
  /\ LET r == [conn[c] EXCEPT !.calls = Append(@, conn[c].url)]
     IN \/ conn' = [conn EXCEPT ![c] = CatchMain(r, "fetch failed")]
        \/ \E s \in UpstreamStatuses, hasBody \in BOOLEAN :
             LET r1 == [r EXCEPT !.hist = Append(@, s),
                                 !.upstream = [status |-> s,
                                               hasBody |-> hasBody,
                                               chunks |-> <<>>]]
                 waitMs == OpenaiWaitMs(r.attempt)
                 \* the loop is left by break, or by attempt++ past the bound
                 r3 == IF OpenaiRetries(s)
                         THEN [r1 EXCEPT !.attempt = @ + 1]
                         ELSE r1
             IN conn' = [conn EXCEPT ![c] =
                  IF OpenaiRetries(s) /\ r.attempt < MAX_RETRIES_OPENAI
                    THEN [r1 EXCEPT !.pc = "openai_wait",
                                    !.waits = Append(@, waitMs),
                                    !.log = Append(@, LogEntry("retry",
                                                   r.attempt + 1, waitMs))]
                  ELSE OpenaiAfterLoop(r3)]
  /\ UNCHANGED <<Others, LoggerState>>

\* OpenaiBackoff with attempt declared outside the handler: one counter for
\* all connections.
OpenaiBackoffShared(c) ==
  /\ conn[c].pc = "openai_wait"
  /\ conn' = [d \in AllConns |->
               IF d = c THEN [conn[d] EXCEPT !.pc = "openai_fetch",
                                             !.attempt = @ + 1]
               ELSE [conn[d] EXCEPT !.attempt = conn[c].attempt + 1]]
  /\ UNCHANGED <<Others, LoggerState>>

\* The backoff timer of the Openai retry loop fires: attempt++ and the next
\* iteration.
OpenaiBackoff(c) ==
  /\ conn[c].pc = "openai_wait"
  /\ conn' = [conn EXCEPT ![c] = [@ EXCEPT !.pc = "openai_fetch",
                                           !.attempt = @ + 1]]
  /\ UNCHANGED <<Others, LoggerState>>

\* OpenaiErrorType without the 401 case.
OpenaiErrorTypeNo401(status) ==
  IF status = 429 THEN "rate_limit_error"
  ELSE IF status >= 500 THEN "api_error"
  ELSE "invalid_request_error"

\* The error type of the OpenAI branch's envelope.
OpenaiErrorType(status) ==
  IF status = 429 THEN "rate_limit_error"
  ELSE IF status = 401 THEN "authentication_error"
  ELSE IF status >= 500 THEN "api_error"
  ELSE "invalid_request_error"

\* The error type of the ChatGPT branch's envelope.
ChatgptErrorType(status) == "api_error"

\* await upstream.text() of the ChatGPT branch, then the error response.
ChatgptErrorText(c) ==
  /\ conn[c].pc = "chatgpt_text"
  /\ LET r == conn[c]
         status == StatusOr500(r.upstream.status)
         l == [r EXCEPT !.log = Append(@, LogEntry("upstream-error", status, 0))]
     IN \/ conn' = [conn EXCEPT ![c] = CatchMain(r, "body read failed")]
        \/ conn' = [conn EXCEPT ![c] =
             Finish(Respond(l, status,
                            ErrorBody(ChatgptErrorType(status), "errText")))]
  /\ UNCHANGED <<Others, LoggerState>>

\* await upstream.text() of the OpenAI branch, then the error response.
OpenaiErrorText(c) ==
  /\ conn[c].pc = "openai_text"
  /\ LET r == conn[c]
         status == StatusOr500(r.upstream.status)
         l == [r EXCEPT !.log = Append(@, LogEntry("upstream-error", status, 0))]
     IN \/ conn' = [conn EXCEPT ![c] = CatchMain(r, "body read failed")]
        \/ conn' = [conn EXCEPT ![c] =
             Finish(Respond(l, status,
                            ErrorBody(OpenaiErrorType(status), "errText")))]
  /\ UNCHANGED <<Others, LoggerState>>

----------------------------------------------------------------------------
(* The non-streaming translation of a Chat-Completions response.  A count  *)
(* is [present, n]; a tool call is [id, name, arguments], its arguments a  *)
(* JSON text ("" when empty or absent).                                    *)

Count(n) == [present |-> TRUE, n |-> n]
\* An absent count (undefined) holds no number: n is a value no count has.
NoCount == [present |-> FALSE, n |-> -1]

\* x || 0
OrZero(count) == IF count.present THEN count.n ELSE 0

ToolCall(id, name, arguments) ==
  [id |-> id, name |-> name, arguments |-> arguments]

OpenaiRes(hasChoice, content, toolCalls, finish, prompt, completion) ==
  [hasChoice |-> hasChoice, content |-> content, toolCalls |-> toolCalls,
   finish |-> finish, prompt_tokens |-> prompt,
   completion_tokens |-> completion]

OpenaiResponses ==
  {OpenaiRes(TRUE, "hi", <<>>, "stop", Count(7), Count(3)),
   OpenaiRes(TRUE, "hi", <<>>, "length", Count(7), NoCount),
   OpenaiRes(TRUE, "", <<ToolCall("c1", "f", "{\"a\":1}")>>, "tool_calls",
             Count(7), Count(3)),
   OpenaiRes(TRUE, "hi", <<ToolCall("c1", "f", "{\"a\":1}"),
                           ToolCall("c2", "g", "")>>, "tool_calls",
             NoCount, NoCount),
   OpenaiRes(TRUE, "hi", <<>>, "absent", Count(7), NoCount),
   OpenaiRes(TRUE, "hi", <<>>, "content_filter", NoCount, Count(3)),
   OpenaiRes(FALSE, "", <<>>, "absent", NoCount, NoCount),
   OpenaiRes(TRUE, "", <<ToolCall("c1", "f", "not json")>>, "tool_calls",
             Count(7), Count(3)),
   OpenaiRes(TRUE, "hi", <<ToolCall("c1", "f", "{}")>>, "stop",
             Count(7), Count(3)),
   OpenaiRes(TRUE, "", <<>>, "tool_calls", Count(0), Count(0))}

\* JSON.parse(tc.function.arguments || "{}")
\* JSON.parse(text) raises: the empty text is no JSON text.
UpstreamJson ==
  IF Concurrent
    THEN {OpenaiRes(TRUE, "hi", <<>>, "stop", Count(7), Count(3)),
          OpenaiRes(TRUE, "", <<ToolCall("c1", "f", "not json")>>, "tool_calls",
                    Count(7), Count(3))}
    ELSE OpenaiResponses

ArgumentsParseThrows(text) == text \in {"", "not json"}

\* tc.function.arguments handed to JSON.parse as it is.
ParsedArgumentsRaw(arguments) == arguments

\* tc.function.arguments || "{}"
ParsedArguments(arguments) == IF arguments = "" THEN "{}" ELSE arguments

\* StopReason with the two mapped values swapped.
StopReasonSwapped(hasChoice, finish) ==
  IF hasChoice /\ finish = "tool_calls" THEN "max_tokens"
  ELSE IF hasChoice /\ finish = "length" THEN "tool_use"
  ELSE "end_turn"

\* The stopReason local.
StopReason(hasChoice, finish) ==
  IF hasChoice /\ finish = "tool_calls" THEN "tool_use"
  ELSE IF hasChoice /\ finish = "length" THEN "max_tokens"
  ELSE "end_turn"

\* The content array built from the first choice.
ResponseContent(o) ==
  (IF o.hasChoice /\ o.content # ""
     THEN <<[type |-> "text", text |-> o.content, id |-> "", name |-> "",
             input |-> ""]>>
     ELSE <<>>)
  \o (IF o.hasChoice
        THEN [i \in DOMAIN o.toolCalls |->
                [type |-> "tool_use", text |-> "", id |-> o.toolCalls[i].id,
                 name |-> o.toolCalls[i].name,
                 input |-> ParsedArguments(o.toolCalls[i].arguments)]]
        ELSE <<>>)

\* The model the non-streaming response reports.
ReportedModel(cfg) == cfg.spoofModel

\* The body of the non-streaming response; from is the upstream response
\* it was built from, kept for the properties.
MessageBody(cfg, o) ==
  [type |-> "message", model |-> ReportedModel(cfg),
   content |-> ResponseContent(o),
   stop_reason |-> StopReason(o.hasChoice, o.finish),
   input_tokens |-> OrZero(o.prompt_tokens),
   output_tokens |-> OrZero(o.completion_tokens),
   from |-> o]

\* await upstream.json(), then the translated response.
OpenaiJson(c) ==
  /\ conn[c].pc = "openai_json"
  /\ LET r == conn[c]
     IN \/ conn' = [conn EXCEPT ![c] = CatchMain(r, "body is not JSON")]
        \/ \E o \in UpstreamJson :
             LET rj == [r EXCEPT !.json = Append(@, o)]
             IN conn' = [conn EXCEPT ![c] =
                  IF o.hasChoice /\ \E i \in DOMAIN o.toolCalls :
                       ArgumentsParseThrows(ParsedArguments(o.toolCalls[i].arguments))
                    THEN CatchMain(rj, "JSON.parse(arguments)")
                  ELSE Finish(Respond(rj, 200, MessageBody(config, o)))]
  /\ UNCHANGED <<Others, LoggerState>>

----------------------------------------------------------------------------
(* The streaming translators are not part of the modelled files: a run of  *)
(* one either completes (its events written, the response ended) or        *)
(* raises.                                                                 *)

StreamTranslatorCompletes(r) == safeEnd(Write(r, JsonBody("events")))

\* await translateResponsesStream(upstream.body, res, config.spoofModel)
ChatgptStream(c) ==
  /\ conn[c].pc = "chatgpt_stream"
  /\ \/ conn' = [conn EXCEPT ![c] = Done(StreamTranslatorCompletes(conn[c]))]
     \/ conn' = [conn EXCEPT ![c] = CatchMain(conn[c], "stream failed")]
  /\ UNCHANGED <<Others, LoggerState>>

\* await translateStream(upstream.body, res, config.spoofModel)
OpenaiStream(c) ==
  /\ conn[c].pc = "openai_stream"
  /\ \/ conn' = [conn EXCEPT ![c] = Done(StreamTranslatorCompletes(conn[c]))]
     \/ conn' = [conn EXCEPT ![c] = CatchMain(conn[c], "stream failed")]
  /\ UNCHANGED <<Others, LoggerState>>

\* The client goes away: the socket is destroyed.
ClientAbort(c) ==
  /\ conn[c].pc \notin {"idle", "done", "unhandled"}
  /\ ~conn[c].destroyed
  /\ ~conn[c].ended
  /\ conn' = [conn EXCEPT ![c] = [@ EXCEPT !.destroyed = TRUE]]
  /\ UNCHANGED <<Others, LoggerState>>

----------------------------------------------------------------------------
(* The handler specification: one connection serves one request.           *)

NoProbe == [stage |-> "none"]

Init ==
  /\ config \in HandlerConfigs
  /\ conn = [c \in AllConns |-> IdleConn]
  /\ sessions = <<>>
  /\ teammateIndex = 0
  /\ totalRequests = 0
  /\ probe = NoProbe

Handle(c) ==
  \/ Receive(c)
  \/ Health(c)
  \/ NotFound(c)
  \/ CountTokensBody(c)
  \/ MessagesBody(c)
  \/ PassthroughFetch(c)
  \/ UpstreamDelivers(c)
  \/ PassthroughRead(c)
  \/ ChatgptFetch(c)
  \/ ChatgptBackoff(c)
  \/ ChatgptErrorText(c)
  \/ ChatgptStream(c)
  \/ OpenaiFetch(c)
  \/ OpenaiBackoff(c)
  \/ OpenaiErrorText(c)
  \/ OpenaiJson(c)
  \/ OpenaiStream(c)
  \/ ClientAbort(c)

Next == Handle(1)

Spec == Init /\ [][Next]_vars

\* The handler specification with the event loop's guarantee for the relay:
\* once reader.read() has settled the loop resumes.  Nothing makes the
\* upstream deliver.
SpecRelay == Init /\ [][Next]_vars /\ WF_vars(PassthroughRead(1))

----------------------------------------------------------------------------
(* The concurrent specification: two connections are served at once, their *)
(* handlers interleaved at every await, under the Chat-Completions         *)
(* provider with the lead matcher.                                         *)

ConcurrentConfigs ==
  {cfg \in HandlerConfigs : /\ cfg.targetProvider = "openai"
                            /\ cfg.passthroughModels = <<LEAD>>
                            /\ cfg.leadBaseUrl = <<>>}

InitConcurrent ==
  /\ config \in ConcurrentConfigs
  /\ conn = [c \in AllConns |-> IdleConn]
  /\ sessions = <<>>
  /\ teammateIndex = 0
  /\ totalRequests = 0
  /\ probe = [stage |-> "concurrent"]

\* The steps of the handler that requests to POST /v1/messages take under
\* the Chat-Completions provider.
HandleMessages(c) ==
  \/ Receive(c)
  \/ MessagesBody(c)
  \/ PassthroughFetch(c)
  \/ UpstreamDelivers(c)
  \/ PassthroughRead(c)
  \/ OpenaiFetch(c)
  \/ OpenaiBackoff(c)
  \/ OpenaiErrorText(c)
  \/ OpenaiJson(c)
  \/ OpenaiStream(c)
  \/ ClientAbort(c)

NextConcurrent == \E c \in AllConns : HandleMessages(c)

\* Every await of the second connection settles and its handler is then
\* run; nothing is assumed of the first connection, which may stay suspended
\* at any await for ever.
SpecConcurrent ==
  InitConcurrent /\ [][NextConcurrent]_vars /\ WF_vars(HandleMessages(2))

----------------------------------------------------------------------------
(* The routing specification: a configuration and a payload are drawn, and *)
(* the routing code of both endpoints and the classifier are applied.      *)

RouteConfigs ==
  {[targetProvider |-> "openai", passthroughModels |-> pm, leadBaseUrl |-> lb,
    targetUrl |-> <<>>, targetModel |-> "gpt-target", spoofModel |-> "spoof"] :
     pm \in {<<>>, <<STAR>>, <<LEAD>>, <<ClaudeX.name>>, <<LEAD, STAR>>,
             <<Gpt.name, LEAD>>, <<Gpt.name, ClaudeX.name>>},
     lb \in {<<>>, AltLeadBaseUrl}}

RouteModels == {ClaudeX, Gpt, XClaude, NamedLead, NoModel}

RouteSystems ==
  {Undef, Str(<<>>), Str(TX), Str(LEAD_MARKER), Str(TTeammate),
   Str(TTeammateUpper), Str(TBoth), Str(TUpperMarker),
   Blocks(<<>>), Blocks(<<LEAD_MARKER>>), Blocks(<<<<"hydra:">>, <<"lead">>>>),
   Blocks(<<<<"the user">>, <<"team lead">>>>),
   Blocks(<<TTeammateUpper, LEAD_MARKER>>)}

RouteMessages ==
  {<<>>, <<Str(TX)>>, <<Str(LEAD_MARKER)>>, <<Blocks(<<TX, LEAD_MARKER>>)>>,
   <<Str(TX), Undef, Str(LEAD_MARKER)>>,
   <<Str(TX), Str(TX), Str(TX), Str(LEAD_MARKER)>>,
   <<Str(<<"hydra:">>), Str(<<"lead">>)>>,
   <<Str(TTeammate)>>}

SearchTexts ==
  {Undef, Str(<<>>), Str(TX), Str(LEAD_MARKER), Str(TUpperMarker),
   Str(<<"x", "hydra:", "lead", "x">>), Str(<<"hydra:", " ", "lead">>),
   Blocks(<<LEAD_MARKER>>)}

NoResult == [done |-> FALSE]

InitRoute ==
  /\ config \in RouteConfigs
  /\ conn = [c \in AllConns |-> IdleConn]
  /\ sessions = <<>>
  /\ teammateIndex = 0
  /\ totalRequests = 0
  /\ \E m \in RouteModels, sy \in RouteSystems, ms \in RouteMessages :
       probe = [req |-> Req(m, sy, ms, "absent", 1),
                main |-> NoResult, ct |-> NoResult, cls |-> NoResult]

\* The routing of POST /v1/messages on the payload.
ProbeMessages ==
  /\ ~probe.main.done
  /\ ~probe.cls.done
  /\ LET d == MessagesRoute(config, probe.req)
     IN probe' = [probe EXCEPT !.main =
          [done |-> TRUE, throws |-> d.throws, isTeammate |-> d.isTeammate,
           isPassthrough |-> d.isPassthrough, url |-> d.url,
           isLeadPassthrough |-> d.isLeadPassthrough]]
  /\ UNCHANGED <<config, conn, LoggerState>>

\* The routing of POST /v1/messages/count_tokens on the payload.
ProbeCountTokens ==
  /\ ~probe.ct.done
  /\ ~probe.cls.done
  /\ LET d == CountTokensRoute(config, probe.req)
     IN probe' = [probe EXCEPT !.ct =
          [done |-> TRUE, isPassthrough |-> d.isPassthrough, url |-> d.url]]
  /\ UNCHANGED <<config, conn, LoggerState>>

\* The classifier on the payload's model, the configured matchers and a
\* search text.
ProbeClassifier ==
  /\ ~probe.main.done
  /\ ~probe.ct.done
  /\ ~probe.cls.done
  /\ \E st \in SearchTexts :
       probe' = [probe EXCEPT !.cls =
         [done |-> TRUE, searchText |-> st,
          throws |-> shouldPassthroughThrows(probe.req.model,
                                             config.passthroughModels, st),
          result |-> shouldPassthrough(probe.req.model,
                                       config.passthroughModels, st)]]
  /\ UNCHANGED <<config, conn, LoggerState>>

NextRoute == ProbeMessages \/ ProbeCountTokens \/ ProbeClassifier

SpecRoute == InitRoute /\ [][NextRoute]_vars

----------------------------------------------------------------------------
(* The session specification: a server serves a sequence of POST           *)
(* /v1/messages requests; each is routed and identified as the handler     *)
(* does between parsing the body and logging the request.  probe keeps the *)
(* last request, the table before it, the session it got, and the trail of *)
(* message counts and sessions so far.                                     *)

MaxRequests == 4

\* n messages of plain text.
Msgs(n) == [i \in 1..n |-> Str(TX)]

SessionRequests ==
  {Req(ClaudeX, Str(TTeammate), Msgs(n), "absent", 2) :
     n \in {0, 4, 6, 14, 15, 30}}
  \cup {Req(ClaudeX, Str(TX), Msgs(n), "absent", 2) : n \in {0, 4}}
  \cup {Req(ClaudeX, Str(TX), Msgs(4), "absent", 0),
        Req(ClaudeX, Str(TTeammate), Msgs(4), "absent", 0),
        Req(ClaudeX, Str(TTeammateUpper), Msgs(6), "absent", 1),
        Req(ClaudeX, Undef, <<>>, "absent", 0)}

SessionConfigs == {cfg \in HandlerConfigs : cfg.targetProvider = "openai"}

InitSessions ==
  /\ config \in SessionConfigs
  /\ conn = [c \in AllConns |-> IdleConn]
  /\ sessions = <<>>
  /\ teammateIndex = 0
  /\ totalRequests = 0
  /\ probe = [req |-> NullReq, before |-> <<>>, beforeIndex |-> 0,
              key |-> NoSession, trail |-> <<>>]

\* One request: the routing locals, then logger.identify.
IdentifyRequest ==
  /\ totalRequests < MaxRequests
  /\ \E q \in SessionRequests :
       LET d == MessagesRoute(config, q)
           id == identify(sessions, teammateIndex,
                          [toolCount |-> d.toolCount, msgCount |-> d.msgCount,
                           isTeammate |-> d.isTeammate])
       IN /\ sessions' = id.sessions
          /\ teammateIndex' = id.teammateIndex
          /\ totalRequests' = totalRequests + 1
          /\ probe' = [req |-> q, before |-> sessions,
                       beforeIndex |-> teammateIndex, key |-> id.key,
                       trail |-> Append(probe.trail,
                                        [msgCount |-> d.msgCount,
                                         key |-> id.key])]
  /\ UNCHANGED <<config, conn>>

NextSessions == IdentifyRequest

SpecSessions == InitSessions /\ [][NextSessions]_vars

----------------------------------------------------------------------------
(* The table specification: the handler specification started from a       *)
(* session table earlier requests have left.                               *)

Session(key, type, lastMsgCount, requestCount) ==
  [key |-> key, type |-> type, lastMsgCount |-> lastMsgCount,
   requestCount |-> requestCount]

Table(sess, tIndex, total) ==
  [sessions |-> sess, teammateIndex |-> tIndex, totalRequests |-> total]

SessionTables ==
  {Table(<<>>, 0, 0),
   Table(<<Session(LEAD_KEY, "lead", 4, 1)>>, 0, 1),
   Table(<<Session(WARM_KEY, "warmup", 4, 1),
           Session(TeammateKey(1), "teammate", 0, 1)>>, 1, 2),
   Table(<<Session(TeammateKey(1), "teammate", 4, 1),
           Session(LEAD_KEY, "lead", 0, 1),
           Session(TeammateKey(2), "teammate", 30, 1)>>, 2, 3)}

InitTables ==
  /\ config \in HandlerConfigs
  /\ conn = [c \in AllConns |-> IdleConn]
  /\ \E t \in SessionTables :
       /\ sessions = t.sessions
       /\ teammateIndex = t.teammateIndex
       /\ totalRequests = t.totalRequests
  /\ probe = NoProbe

SpecTables == InitTables /\ [][Next]_vars

\* The concurrent specification started from a session table earlier
\* requests have left: the handlers of two connections interleave at every
\* await and share the table.
InitConcurrentTables ==
  /\ config \in ConcurrentConfigs
  /\ conn = [c \in AllConns |-> IdleConn]
  /\ \E t \in SessionTables :
       /\ sessions = t.sessions
       /\ teammateIndex = t.teammateIndex
       /\ totalRequests = t.totalRequests
  /\ probe = [stage |-> "concurrent"]

SpecConcurrentTables == InitConcurrentTables /\ [][NextConcurrent]_vars

----------------------------------------------------------------------------
(* The streaming translators (translators/response.ts and                  *)
(* translators/response-responses.ts), as the specification's section 4.4  *)
(* describes them: a state machine AwaitingStart, StreamingContent,        *)
(* AwaitingStop, Done fed with the upstream's events.  An upstream content *)
(* event is a text delta or a fragment of the tool call of some upstream   *)
(* index; the upstream may then signal completion with a finish reason,    *)
(* and ends.  An emitted event notes the unit and the position (src) of    *)
(* the upstream event it renders.                                          *)

MaxEvents == 4
MaxToolIndex == 1

ToolIndexes == 0..MaxToolIndex

NoUnit == [kind |-> "none", index |-> 0]
TextUnit == [kind |-> "text", index |-> 0]
ToolUnit(i) == [kind |-> "tool", index |-> i]

UpstreamEvents == {TextUnit} \cup {ToolUnit(i) : i \in ToolIndexes}
UpstreamStreams == UNION {[1..n -> UpstreamEvents] : n \in 0..MaxEvents}
FinishReasons == {"absent", "stop", "tool_calls", "length"}

Ev(type, model, index, unit, src, stop_reason) ==
  [type |-> type, model |-> model, index |-> index, unit |-> unit,
   src |-> src, stop_reason |-> stop_reason]

\* StreamTranslationState before the first upstream chunk.
NewStream(stream, finish) ==
  [stream |-> stream, finish |-> finish, pos |-> 0,
   stage |-> "AwaitingStart", started |-> FALSE, nextIndex |-> 0,
   open |-> NoUnit, openIndex |-> 0,
   toolBlock |-> [i \in ToolIndexes |-> -1],
   finishReason |-> "absent", events |-> <<>>, closed |-> FALSE]

Emit(st, e) == [st EXCEPT !.events = Append(@, e)]

\* MessageStart naming the target model.
MessageStartTarget(cfg) ==
  Ev("message_start", cfg.targetModel, 0, NoUnit, 0, "")

\* message-start carries the spoof model name.
MessageStart(cfg) == Ev("message_start", cfg.spoofModel, 0, NoUnit, 0, "")

\* message-start, once, on the first upstream byte.
StartStream(st, cfg) ==
  IF st.started THEN st
  ELSE Emit([st EXCEPT !.started = TRUE, !.stage = "StreamingContent"],
            MessageStart(cfg))

\* CloseOpen leaving the block open.
CloseOpenNever(st) == [st EXCEPT !.open = NoUnit]

\* The open unit closes: content-block-stop.
CloseOpen(st) ==
  IF st.open = NoUnit THEN st
  ELSE Emit([st EXCEPT !.open = NoUnit],
            Ev("content_block_stop", "", st.openIndex, st.open, 0, ""))

\* A unit seen for the first time: the open unit closes and the next
\* sequential block opens.
OpenBlock(st, unit) ==
  LET s1 == CloseOpen(st)
  IN Emit([s1 EXCEPT !.open = unit, !.openIndex = s1.nextIndex,
                     !.nextIndex = @ + 1,
                     !.toolBlock = IF unit.kind = "tool"
                                     THEN [@ EXCEPT ![unit.index] = s1.nextIndex]
                                     ELSE @],
          Ev("content_block_start", "", s1.nextIndex, unit, 0, ""))

\* One upstream content event, the src-th of the stream.
TranslateDelta(st, cfg, unit, src) ==
  LET s0 == StartStream(st, cfg)
  IN IF unit.kind = "text"
       THEN LET s1 == IF s0.open = TextUnit THEN s0 ELSE OpenBlock(s0, TextUnit)
            IN Emit(s1, Ev("content_block_delta", "", s1.openIndex, unit, src, ""))
     ELSE IF s0.toolBlock[unit.index] = -1
       THEN LET s1 == OpenBlock(s0, unit)
            IN Emit(s1, Ev("content_block_delta", "", s1.openIndex, unit, src, ""))
     ELSE Emit(s0, Ev("content_block_delta", "", s0.toolBlock[unit.index],
                      unit, src, ""))

\* The upstream signals completion with a finish reason.
TranslateFinish(st, cfg, reason) ==
  [CloseOpen(StartStream(st, cfg)) EXCEPT !.finishReason = reason,
                                          !.stage = "AwaitingStop"]

\* The upstream stream ends: the terminal events and the transport's close.
TranslateEnd(st, cfg) ==
  LET s1 == CloseOpen(StartStream(st, cfg))
      s2 == Emit(s1, Ev("message_delta", "", 0, NoUnit, 0,
                        StopReason(TRUE, s1.finishReason)))
      s3 == Emit(s2, Ev("message_stop", "", 0, NoUnit, 0, ""))
  IN [s3 EXCEPT !.stage = "Done", !.closed = TRUE]

InitStream ==
  /\ config \in SessionConfigs
  /\ conn = [c \in AllConns |-> IdleConn]
  /\ sessions = <<>>
  /\ teammateIndex = 0
  /\ totalRequests = 0
  /\ \E stream \in UpstreamStreams, finish \in FinishReasons :
       probe = NewStream(stream, finish)

\* The translator reads the next content event.
StreamDelta ==
  /\ probe.stage \in {"AwaitingStart", "StreamingContent"}
  /\ probe.pos < Len(probe.stream)
  /\ probe' = [TranslateDelta(probe, config, probe.stream[probe.pos + 1],
                              probe.pos + 1) EXCEPT !.pos = @ + 1]
  /\ UNCHANGED <<config, conn, LoggerState>>

\* The translator reads the upstream's finish reason.
StreamFinish ==
  /\ probe.stage \in {"AwaitingStart", "StreamingContent"}
  /\ probe.pos = Len(probe.stream)
  /\ probe.finish # "absent"
  /\ probe' = TranslateFinish(probe, config, probe.finish)
  /\ UNCHANGED <<config, conn, LoggerState>>

\* The translator reads the end of the upstream stream.
StreamEnd ==
  /\ \/ probe.stage = "AwaitingStop"
     \/ /\ probe.stage \in {"AwaitingStart", "StreamingContent"}
        /\ probe.pos = Len(probe.stream)
        /\ probe.finish = "absent"
  /\ probe' = TranslateEnd(probe, config)
  /\ UNCHANGED <<config, conn, LoggerState>>

\* The upstream connection fails: the translator raises and the handler
\* ends the response.
StreamFails ==
  /\ probe.stage \notin {"Done", "Failed"}
  /\ probe' = [probe EXCEPT !.stage = "Failed", !.closed = TRUE]
  /\ UNCHANGED <<config, conn, LoggerState>>

NextStream == StreamDelta \/ StreamFinish \/ StreamEnd \/ StreamFails

SpecStream == InitStream /\ [][NextStream]_vars

----------------------------------------------------------------------------
(* Properties of the routing.                                              *)

\* text contains phrase when case is ignored.
ContainsIgnoringCase(text, phrase) ==
  \E i \in 0..(Len(text) - Len(phrase)) :
    \A k \in 1..Len(phrase) : LowerAtom(text[i + k]) = LowerAtom(phrase[k])

Elements(list) == {list[i] : i \in DOMAIN list}

\* C3: on POST /v1/messages a request whose system text contains the
\* teammate phrase, in any casing, is routed to translate, whatever the
\* matchers and the model, also when the lead marker is in the search text.
C3_TeammateAlwaysTranslates ==
  (/\ probe.main.done
   /\ ContainsIgnoringCase(extractSystemText(probe.req.system), TEAMMATE_MARKER))
  => (~probe.main.isPassthrough /\ ~probe.main.throws)

\* A teammate request with the lead marker, under the lead matcher, routed.
C3_Witness ==
  /\ probe.main.done
  /\ ContainsIgnoringCase(extractSystemText(probe.req.system), TEAMMATE_MARKER)
  /\ Includes(extractSystemText(probe.req.system), LEAD_MARKER)
  /\ LEAD \in Elements(config.passthroughModels)
  /\ STAR \notin Elements(config.passthroughModels)
  /\ ~probe.main.isPassthrough

\* C4: the classifier follows the decision order: no matcher, translate;
\* else with "*" configured, passthrough iff the model starts with
\* "claude-"; else with "lead" configured, passthrough iff the search text
\* holds the lead marker; else passthrough iff the model is listed.
C4_DecisionOrder ==
  (/\ probe.cls.done
   /\ probe.req.model.defined
   /\ probe.cls.searchText.kind # "blocks")
  => LET pm == Elements(config.passthroughModels)
         name == probe.req.model.name
         text == probe.cls.searchText.text
         res == probe.cls.result
     IN /\ ~probe.cls.throws
        /\ (pm = {}) => ~res
        /\ (pm # {} /\ STAR \in pm)
             => (res <=> (Len(name) >= 1 /\ name[1] = "claude-"))
        /\ (pm # {} /\ STAR \notin pm /\ LEAD \in pm)
             => (res <=> \E i \in 1..(Len(text) - 1) :
                           text[i] = "hydra:" /\ text[i + 1] = "lead")
        /\ (pm # {} /\ STAR \notin pm /\ LEAD \notin pm)
             => (res <=> name \in pm)

\* Both "*" and "lead" configured, the marker in the search text, a model
\* that is not native: the earlier "*" rule decides, translate.
C4_Witness ==
  /\ probe.cls.done
  /\ probe.req.model.defined
  /\ config.passthroughModels = <<LEAD, STAR>>
  /\ probe.cls.searchText = Str(LEAD_MARKER)
  /\ ~StartsWith(probe.req.model.name, NATIVE_PREFIX)
  /\ ~probe.cls.result

\* C8: count_tokens relays to the Anthropic-compatible upstream iff the
\* main endpoint routes the same payload to passthrough.
C8_SameRoutingRule ==
  (probe.main.done /\ probe.ct.done)
  => (probe.ct.isPassthrough <=> probe.main.isPassthrough)

----------------------------------------------------------------------------
(* Properties of the handler.                                              *)

BackoffSchedule == <<1000, 2000, 4000, 8000, 10000>>

InRetryLoop(r) ==
  r.pc \in {"chatgpt_fetch", "chatgpt_wait", "openai_fetch", "openai_wait"}

\* The retry loop of r was entered and is left, every call answered.
LoopLeft(r) ==
  /\ r.route = "translate"
  /\ ~InRetryLoop(r)
  /\ Len(r.calls) >= 1
  /\ Len(r.calls) = Len(r.hist)

AllRateLimited(r) == \A i \in DOMAIN r.hist : r.hist[i] = 429

RetryLogs(r) == SelectSeq(r.log, LAMBDA e : e.kind = "retry")

\* C1: on both translate paths, with every call answered 429, the waits
\* are 1000, 2000, 4000, 8000, 10000 ms in this order, one retry is logged
\* per wait, and the loop is left after exactly 6 calls, 5 waits and 5
\* logged retries, with no wait after the 6th call.
C1_AlwaysRateLimited ==
  \A c \in AllConns :
    LET r == conn[c]
    IN (r.route = "translate" /\ AllRateLimited(r) /\ Len(r.calls) = Len(r.hist))
       => /\ Len(r.calls) <= 6
          /\ r.waits = SubSeq(BackoffSchedule, 1, Min(Len(r.hist), 5))
          /\ Len(RetryLogs(r)) = Len(r.waits)
          /\ \A i \in DOMAIN r.waits :
               RetryLogs(r)[i].n = i /\ RetryLogs(r)[i].ms = r.waits[i]
          /\ (Len(r.calls) = 6 => ~InRetryLoop(r))
          /\ (LoopLeft(r) => /\ Len(r.calls) = 6
                             /\ r.waits = BackoffSchedule
                             /\ Len(RetryLogs(r)) = 5)

\* A request of the Chat-Completions path answered 429 six times, finished.
C1_Witness ==
  /\ conn[1].pc = "done"
  /\ config.targetProvider = "openai"
  /\ conn[1].hist = <<429, 429, 429, 429, 429, 429>>
  /\ conn[1].waits = BackoffSchedule

\* C2: on both translate paths the loop stops at the first response that
\* is not 429: every call but the last was answered 429, there are at most
\* 6 calls and no more waits than 429 answers, a wait is pending only after
\* a 429, the loop is left on a non-429 answer or on the 6th 429, the
\* response kept is the last one received, and an error response built
\* from it (six 429s included) carries its status.
C2_StopsAtFirstNon429 ==
  \A c \in AllConns :
    LET r == conn[c]
        n == Len(r.hist)
    IN r.route = "translate"
       => /\ Len(r.calls) <= 6
          /\ Len(r.calls) \in {n, n + 1}
          /\ \A i \in 1..(Len(r.calls) - 1) : i <= n /\ r.hist[i] = 429
          /\ Len(r.waits) <= Cardinality({i \in 1..n : r.hist[i] = 429})
          /\ (r.pc \in {"chatgpt_wait", "openai_wait"}
                => n >= 1 /\ r.hist[n] = 429 /\ Len(r.waits) = n)
          /\ (LoopLeft(r) => (r.hist[n] # 429 \/ n = 6))
          /\ (n >= 1 => r.upstream.status = r.hist[n])
          /\ (LoopLeft(r) /\ r.pc = "done" /\ r.failure = "none"
                /\ ~(r.hist[n] >= 200 /\ r.hist[n] <= 299)
                => /\ r.status = r.hist[n]
                   /\ (~r.destroyed => Len(r.out) = 1 /\ r.out[1].type = "error"))

\* Two 429 answers, then a 500 that ends the loop and reaches the client.
C2_Witness ==
  /\ conn[1].pc = "done"
  /\ conn[1].hist = <<429, 429, 500>>
  /\ Len(conn[1].calls) = 3
  /\ conn[1].status = 500
  /\ ~conn[1].destroyed

IsChunkPrefix(out, chunks) ==
  /\ Len(out) <= Len(chunks)
  /\ \A i \in DOMAIN out : out[i] = ChunkBody(chunks[i])

\* C5: a request routed to passthrough makes at most one upstream call,
\* whatever the status, with no backoff wait and no retry; once the
\* upstream has answered, the client's status is the upstream's and what
\* the client got is the upstream's chunks in order, unmodified: all that
\* were read while the client is there, all of them when the relay ends
\* with the client there and no failure.
C5_PassthroughOnce ==
  \A c \in AllConns :
    LET r == conn[c]
    IN r.route = "passthrough"
       => /\ Len(r.calls) <= 1
          /\ r.waits = <<>>
          /\ RetryLogs(r) = <<>>
          /\ r.attempt = 0
          /\ (r.pc = "done" => Len(r.calls) = 1)
          /\ (Len(r.hist) = 1
                => /\ r.headersSent
                   /\ r.status = r.hist[1]
                   /\ r.headCalls = 1
                   /\ IsChunkPrefix(r.out, r.upstream.chunks)
                   /\ Len(r.out) <= r.rd
                   /\ (~r.destroyed => Len(r.out) = r.rd)
                   /\ (r.pc = "done" /\ ~r.destroyed /\ r.failure = "none"
                         => Len(r.out) = Len(r.upstream.chunks)))

\* A passthrough of a 429 answer with two different chunks, relayed whole.
C5_Witness ==
  /\ conn[1].pc = "done"
  /\ conn[1].route = "passthrough"
  /\ conn[1].endpoint = "messages"
  /\ conn[1].hist = <<429>>
  /\ conn[1].status = 429
  /\ Len(conn[1].out) = 2
  /\ conn[1].out[1] # conn[1].out[2]
  /\ ~conn[1].destroyed

StructuredBodies(r) ==
  SelectSeq(r.out, LAMBDA b : b.type \in {"error", "tokens"})

\* C6: on every path of every endpoint a failure writes a structured body
\* only when no head was sent yet; with the head sent the handler writes no
\* further head and no structured payload and only ends the response; the
\* head is written at most once and the response ended at most once.
C6_FailureAfterHeadOnlyEnds ==
  \A c \in AllConns :
    LET r == conn[c]
    IN /\ r.lateHeadCalls = 0
       /\ r.pc # "unhandled"
       /\ r.headCalls <= 1
       /\ r.endCalls <= 1
       /\ (r.failedAfterHead => StructuredBodies(r) = <<>>)
       /\ (r.pc = "done" /\ r.failedAfterHead /\ ~r.destroyed => r.ended)

ExpectedErrorType(provider, status) ==
  IF provider = "chatgpt" THEN "api_error"
  ELSE CASE status = 429 -> "rate_limit_error"
         [] status = 401 -> "authentication_error"
         [] status >= 500 -> "api_error"
         [] OTHER -> "invalid_request_error"

\* C7: when the response that ends the retry loop is not a success and its
\* body is read, the client's status is the upstream's and the envelope is
\* {type: "error", error: {type, message}} with the type the path
\* prescribes: on the Chat-Completions path rate_limit_error for 429,
\* authentication_error for 401, api_error from 500 on,
\* invalid_request_error otherwise; on the Responses path api_error.
C7_ErrorMapping ==
  \A c \in AllConns :
    LET r == conn[c]
        last == r.hist[Len(r.hist)]
    IN (LoopLeft(r) /\ r.pc = "done" /\ r.failure = "none"
          /\ ~(last >= 200 /\ last <= 299))
       => /\ r.status = last
          /\ r.headCalls = 1
          /\ (~r.destroyed
                => r.out = <<[type |-> "error",
                              errType |-> ExpectedErrorType(config.targetProvider,
                                                            last),
                              message |-> "errText"]>>)

\* A 401 on the Chat-Completions path, answered as authentication_error.
C7_Witness ==
  /\ conn[1].pc = "done"
  /\ config.targetProvider = "openai"
  /\ conn[1].hist = <<429, 401>>
  /\ conn[1].status = 401
  /\ Len(conn[1].out) = 1
  /\ conn[1].out[1].type = "error"
  /\ conn[1].out[1].errType = "authentication_error"

\* C9: a body that is not valid JSON never reaches the request translator
\* and causes no upstream call; POST /v1/messages answers it with status
\* 500 and an error envelope, POST /v1/messages/count_tokens with status
\* 200 and input_tokens = 1000.
C9_MalformedBody ==
  \A c \in AllConns :
    LET r == conn[c]
    IN (r.endpoint \in {"messages", "count_tokens"} /\ ~r.body.valid)
       => /\ r.translated = 0
          /\ r.calls = <<>>
          /\ r.pc \in {"readBody", "done"}
          /\ (r.pc = "done" /\ r.endpoint = "messages" /\ ~r.destroyed
                => /\ r.status = 500
                   /\ Len(r.out) = 1
                   /\ r.out[1].type = "error"
                   /\ r.out[1].errType = "api_error")
          /\ (r.pc = "done" /\ r.endpoint = "count_tokens"
                => /\ r.status = 200
                   /\ (~r.destroyed => r.out = <<TokensBody(1000)>>))

\* A malformed body on POST /v1/messages, answered 500.
C9_Witness ==
  /\ conn[1].pc = "done"
  /\ conn[1].endpoint = "messages"
  /\ ~conn[1].body.valid
  /\ conn[1].status = 500
  /\ Len(conn[1].out) = 1

MessageBodies(r) == SelectSeq(r.out, LAMBDA b : b.type = "message")

\* C10: in the non-streaming Chat-Completions response stop_reason follows
\* from the first choice's finish reason alone ("tool_calls" gives
\* "tool_use", "length" gives "max_tokens", anything else, none, or no
\* first choice gives "end_turn"), the model is the spoof model and never
\* the target model, and absent usage counts are reported as 0.
C10_StopReasonModelUsage ==
  \A c \in AllConns :
    \A i \in DOMAIN MessageBodies(conn[c]) :
      LET m == MessageBodies(conn[c])[i]
          o == m.from
      IN /\ config.targetProvider = "openai"
         /\ ~conn[c].isStreaming
         /\ (o.hasChoice /\ o.finish = "tool_calls") => m.stop_reason = "tool_use"
         /\ (o.hasChoice /\ o.finish = "length") => m.stop_reason = "max_tokens"
         /\ (~o.hasChoice \/ o.finish \notin {"tool_calls", "length"})
              => m.stop_reason = "end_turn"
         /\ m.model = config.spoofModel
         /\ m.model # config.targetModel
         /\ m.input_tokens = (IF o.prompt_tokens.present
                                THEN o.prompt_tokens.n ELSE 0)
         /\ m.output_tokens = (IF o.completion_tokens.present
                                 THEN o.completion_tokens.n ELSE 0)

\* A response cut by the length limit with no completion count.
C10_Witness ==
  /\ conn[1].pc = "done"
  /\ Len(MessageBodies(conn[1])) = 1
  /\ MessageBodies(conn[1])[1].stop_reason = "max_tokens"
  /\ MessageBodies(conn[1])[1].model = "spoof"
  /\ ~MessageBodies(conn[1])[1].from.completion_tokens.present
  /\ MessageBodies(conn[1])[1].output_tokens = 0

\* The content the code is to build from an upstream body: the text block
\* of a non-empty content, then one tool-use block per tool call.
ToolCallsOf(o) == IF o.hasChoice THEN o.toolCalls ELSE <<>>
HasText(o) == o.hasChoice /\ o.content # ""
TextBlocks(o) == IF HasText(o) THEN 1 ELSE 0
\* The argument texts of the inputs that are JSON texts.
JsonObjectTexts == {"{}", "{\"a\":1}"}

\* C11: the content of the non-streaming Chat-Completions response is one
\* text block iff the first choice has non-empty content, placed first, then
\* exactly one tool-use block per upstream tool call in upstream order, each
\* with the upstream id and name; a tool call with empty or absent arguments
\* gets the empty object as input and never makes the parse fail.
C11_ContentSequence ==
  \A c \in AllConns :
    /\ \A i \in DOMAIN MessageBodies(conn[c]) :
         LET m == MessageBodies(conn[c])[i]
             o == m.from
             k == TextBlocks(o)
             calls == ToolCallsOf(o)
         IN /\ Len(m.content) = k + Len(calls)
            /\ HasText(o) => /\ m.content[1].type = "text"
                             /\ m.content[1].text = o.content
            /\ \A j \in DOMAIN calls :
                 /\ m.content[k + j].type = "tool_use"
                 /\ m.content[k + j].id = calls[j].id
                 /\ m.content[k + j].name = calls[j].name
                 /\ calls[j].arguments = "" => m.content[k + j].input = "{}"
    /\ conn[c].failure = "JSON.parse(arguments)" =>
         \E j \in DOMAIN ToolCallsOf(conn[c].json[1]) :
           ToolCallsOf(conn[c].json[1])[j].arguments
             \notin {""} \cup JsonObjectTexts

\* A text block followed by two tool-use blocks, the second from a call
\* with no arguments.
C11_Witness ==
  /\ conn[1].pc = "done"
  /\ Len(MessageBodies(conn[1])) = 1
  /\ Len(MessageBodies(conn[1])[1].content) = 3
  /\ MessageBodies(conn[1])[1].content[1].type = "text"
  /\ MessageBodies(conn[1])[1].content[3].id = "c2"
  /\ MessageBodies(conn[1])[1].from.toolCalls[2].arguments = ""
  /\ MessageBodies(conn[1])[1].content[3].input = "{}"

----------------------------------------------------------------------------
(* Properties of the session correlator.                                   *)

TeammateSessions(sess) == {i \in DOMAIN sess : sess[i].type = "teammate"}

\* The teammate sessions whose last message count is at most 8 below n.
Near(sess, n) ==
  {i \in TeammateSessions(sess) :
     n - sess[i].lastMsgCount >= 0 /\ n - sess[i].lastMsgCount <= 8}

\* The last request of the session specification is a teammate's.
LastIsTeammateRequest ==
  /\ totalRequests > 0
  /\ probe.req.tools > 0
  /\ ContainsIgnoringCase(extractSystemText(probe.req.system), TEAMMATE_MARKER)

\* C12: a teammate request with message count n attaches to the teammate
\* session with the smallest gap n - m among those with 0 <= n - m <= 8 and
\* sets its last count to n; with no such session a new one is allocated
\* under the next sequential key; the number of teammate sessions equals the
\* teammate index.
C12_TeammateAttach ==
  /\ Cardinality(TeammateSessions(sessions)) = teammateIndex
  /\ \A k \in 1..teammateIndex :
       \E i \in TeammateSessions(sessions) : sessions[i].key = TeammateKey(k)
  /\ LastIsTeammateRequest =>
       LET n == Len(probe.req.messages)
           before == probe.before
           near == Near(before, n)
       IN IF near # {}
            THEN /\ teammateIndex = probe.beforeIndex
                 /\ Len(sessions) = Len(before)
                 /\ \E i \in near :
                      /\ \A j \in near :
                           before[i].lastMsgCount >= before[j].lastMsgCount
                      /\ probe.key = before[i].key
                      /\ sessions[i].key = before[i].key
                      /\ sessions[i].lastMsgCount = n
                      /\ \A j \in DOMAIN before : j # i => sessions[j] = before[j]
            ELSE /\ teammateIndex = probe.beforeIndex + 1
                 /\ probe.key = TeammateKey(probe.beforeIndex + 1)
                 /\ Len(sessions) = Len(before) + 1
                 /\ sessions[Len(sessions)].key = probe.key
                 /\ sessions[Len(sessions)].type = "teammate"
                 /\ sessions[Len(sessions)].lastMsgCount = n
                 /\ \A j \in DOMAIN before : sessions[j] = before[j]

\* Counts 4 then 6 attached to one session, then count 30 allocated a new one.
C12_Witness ==
  probe.trail = <<[msgCount |-> 4, key |-> TeammateKey(1)],
                  [msgCount |-> 6, key |-> TeammateKey(1)],
                  [msgCount |-> 30, key |-> TeammateKey(2)]>>

SessionsOfType(sess, type) == {i \in DOMAIN sess : sess[i].type = type}

\* The type of the session stored under key.
TypeOf(sess, key) == sess[SessionIndex(sess, key)].type

\* C13: a request is attributed by its shape alone: with no declared tools
\* to the one warmup session, also when the system text has the teammate
\* phrase; otherwise with the teammate phrase to a teammate session;
\* otherwise to the one lead session.  The table never holds more than one
\* lead session or more than one warmup session.
C13_SessionTypeByShape ==
  /\ Cardinality(SessionsOfType(sessions, "lead")) <= 1
  /\ Cardinality(SessionsOfType(sessions, "warmup")) <= 1
  /\ totalRequests > 0 =>
       /\ SessionIndex(sessions, probe.key) # 0
       /\ IF probe.req.tools = 0
            THEN probe.key = WARM_KEY /\ TypeOf(sessions, probe.key) = "warmup"
          ELSE IF ContainsIgnoringCase(extractSystemText(probe.req.system),
                                       TEAMMATE_MARKER)
            THEN /\ probe.key \in {TeammateKey(k) : k \in 1..teammateIndex}
                 /\ TypeOf(sessions, probe.key) = "teammate"
          ELSE probe.key = LEAD_KEY /\ TypeOf(sessions, probe.key) = "lead"

\* A request with the teammate phrase and no tools went to the warmup
\* session, after requests of a lead and of a teammate.
C13_Witness ==
  /\ totalRequests > 0
  /\ probe.req.tools = 0
  /\ ContainsIgnoringCase(extractSystemText(probe.req.system), TEAMMATE_MARKER)
  /\ probe.key = WARM_KEY
  /\ SessionsOfType(sessions, "lead") # {}
  /\ SessionsOfType(sessions, "teammate") # {}

----------------------------------------------------------------------------
(* Session correlation and the protocol.                                   *)

\* What of a handler's record the protocol shows: all but the session.
Observable(r) == [r EXCEPT !.session = NoSession]

\* The URL the handler of POST /v1/messages is to call, from the
\* configuration and the request alone.
ExpectedUrl(cfg, req) ==
  IF MessagesRoute(cfg, req).isPassthrough THEN MessagesRoute(cfg, req).url
  ELSE IF cfg.targetProvider = "chatgpt" THEN CHATGPT_API_URL
  ELSE IF cfg.targetUrl # <<>> THEN cfg.targetUrl
  ELSE DEFAULT_OPENAI_URL

\* C14: the session table never affects the protocol: the routing decision
\* and the URL of every upstream call follow from the configuration and the
\* request alone, and the step of the handler that consults the table leaves
\* the handler (its route, upstream request, response) as it would from any
\* other table; the session it notes is the only difference.
C14_TableNeverAffectsProtocol ==
  /\ [](\A c \in AllConns :
          (conn[c].endpoint = "messages" /\ conn[c].route # "none") =>
            /\ conn[c].route =
                 (IF MessagesRoute(config, conn[c].body.req).isPassthrough
                    THEN "passthrough" ELSE "translate")
            /\ \A i \in DOMAIN conn[c].calls :
                 conn[c].calls[i] = ExpectedUrl(config, conn[c].body.req))
  /\ [][\A c \in AllConns :
          (/\ conn[c].pc = "readBody"
           /\ conn[c].endpoint = "messages"
           /\ conn'[c].pc # "readBody") =>
            \A t \in SessionTables :
              \E x \in BOOLEAN :
                Observable(MessagesBodyResult(conn[c], config, t.sessions,
                                              t.teammateIndex, t.totalRequests,
                                              x).conn)
                  = Observable(conn'[c])]_vars

\* A request answered from a table that held sessions before it arrived.
C14_Witness ==
  /\ conn[1].pc = "done"
  /\ conn[1].route = "passthrough"
  /\ conn[1].status = 200
  /\ Len(conn[1].calls) = 1
  /\ Len(sessions) = 3
  /\ totalRequests = 3

----------------------------------------------------------------------------
(* The relay and a client that goes away.                                  *)

Chunks(r) == SelectSeq(r.out, LAMBDA b : b.type = "chunk")

\* C15: during a relay no chunk is written once the client response is
\* ended or destroyed, and a disconnect is followed by the release of the
\* reader and the end of the handler, whether or not the upstream delivers
\* a further chunk or ends its stream.
C15_DisconnectReleasesReader ==
  /\ [][\A c \in AllConns :
          (conn[c].ended \/ conn[c].destroyed) =>
            Len(Chunks(conn'[c])) = Len(Chunks(conn[c]))]_vars
  /\ \A c \in AllConns :
       (conn[c].pc = "pt_read" /\ conn[c].destroyed)
         ~> (conn[c].released /\ conn[c].pc \in {"done", "unhandled"})

----------------------------------------------------------------------------
(* The passthrough base URL.                                               *)

\* The matcher that decides the classification, by the decision order.
DecidingMatcher(passthroughModels) ==
  IF ListIncludes(passthroughModels, STAR) THEN "star"
  ELSE IF ListIncludes(passthroughModels, LEAD) THEN "lead"
  ELSE "model"

\* C16: on POST /v1/messages the passthrough base URL is the configured
\* alternate lead base URL exactly when the lead matcher decided the
\* passthrough and an alternate is configured; a passthrough the lead
\* matcher decided with no alternate configured, and every passthrough the
\* '*' matcher or a listed model name decided, goes to the default base URL.
C16_LeadBaseUrlOnlyWhenLeadTriggered ==
  (probe.main.done /\ probe.main.isPassthrough) =>
    probe.main.url =
      normalizeAnthropicMessagesUrl(
        IF /\ DecidingMatcher(config.passthroughModels) = "lead"
           /\ config.leadBaseUrl # <<>>
          THEN config.leadBaseUrl
          ELSE DEFAULT_ANTHROPIC_BASE_URL,
        FALSE)

----------------------------------------------------------------------------
(* A successful upstream response without a body.                          *)

\* The last upstream answer of a streaming translate path was a success
\* that carried no body.
MissingBody(r) ==
  /\ r.endpoint = "messages"
  /\ r.route = "translate"
  /\ config.targetProvider = "chatgpt" \/ r.isStreaming
  /\ Len(r.hist) > 0
  /\ Ok(r.hist[Len(r.hist)])
  /\ ~r.upstream.hasBody

\* C17: on a streaming translate path a 2xx upstream response without a body
\* is answered with status 500 and an api_error envelope whose message is
\* not the upstream's error text; no upstream call follows it and no head
\* other than the 500 one is written.
C17_MissingBodyIs500 ==
  \A c \in AllConns :
    MissingBody(conn[c]) =>
      /\ conn[c].pc = "done"
      /\ conn[c].status = 500
      /\ conn[c].headCalls = 1
      /\ conn[c].lateHeadCalls = 0
      /\ Len(conn[c].calls) = Len(conn[c].hist)
      /\ conn[c].out = IF conn[c].destroyed THEN <<>>
                       ELSE <<ErrorBody("api_error", "No response body")>>
      /\ \A i \in DOMAIN conn[c].out : conn[c].out[i].message # "errText"
      /\ \A i \in DOMAIN conn[c].log : conn[c].log[i].kind # "upstream-error"

\* A 200 without a body after one 429, answered to a client still there.
C17_Witness ==
  /\ MissingBody(conn[1])
  /\ conn[1].isStreaming
  /\ conn[1].hist = <<429, 200>>
  /\ ~conn[1].destroyed
  /\ conn[1].status = 500
  /\ Len(conn[1].out) = 1

----------------------------------------------------------------------------
(* Properties of the streaming translator.                                 *)

\* The positions of the emitted events of a type.
EventsOfType(type) ==
  {i \in DOMAIN probe.events : probe.events[i].type = type}

\* The stop reason a finish reason maps to.
MappedStopReason(finish) ==
  CASE finish = "tool_calls" -> "tool_use"
    [] finish = "length" -> "max_tokens"
    [] OTHER -> "end_turn"

\* C18: the streaming translator emits message-start once, before any other
\* event and with the spoof model name, and message-stop once; a stream that
\* ends is closed by message-delta with the mapped stop reason, then
\* message-stop, then the transport's close, and nothing follows message-stop.
C18_OneStartOneStop ==
  LET e == probe.events
      n == Len(e)
  IN /\ n > 0 => /\ e[1].type = "message_start"
                 /\ e[1].model = config.spoofModel
                 /\ e[1].model # config.targetModel
     /\ Cardinality(EventsOfType("message_start")) <= 1
     /\ Cardinality(EventsOfType("message_stop")) <= 1
     /\ Cardinality(EventsOfType("message_delta")) <= 1
     /\ \A i \in EventsOfType("message_stop") : i = n
     /\ probe.closed => probe.stage \in {"Done", "Failed"}
     /\ probe.stage = "Done" =>
          /\ probe.closed
          /\ Cardinality(EventsOfType("message_start")) = 1
          /\ n >= 3
          /\ e[n - 1].type = "message_delta"
          /\ e[n - 1].stop_reason = MappedStopReason(probe.finish)
          /\ e[n].type = "message_stop"

\* A stream of a text and a tool call that finished with tool_calls, ended.
C18_Witness ==
  /\ probe.stage = "Done"
  /\ probe.stream = <<TextUnit, ToolUnit(0)>>
  /\ probe.finish = "tool_calls"
  /\ probe.events[Len(probe.events) - 1].stop_reason = "tool_use"
  /\ probe.events[Len(probe.events)].type = "message_stop"

\* The block with index b is started before position i of the emitted
\* events, and stopped before it.
StartedBefore(b, i) ==
  \E j \in EventsOfType("content_block_start") :
    j < i /\ probe.events[j].index = b
StoppedBefore(b, i) ==
  \E j \in EventsOfType("content_block_stop") :
    j < i /\ probe.events[j].index = b

\* Blocks are started in increasing order from 0, each once, stopped at most
\* once and after their start, and all stopped before message-delta.
BlocksBalanced ==
  LET e == probe.events
      starts == EventsOfType("content_block_start")
      stops == EventsOfType("content_block_stop")
  IN /\ \A i \in starts :
          e[i].index = Cardinality({j \in starts : j < i})
     /\ \A i \in stops :
          /\ StartedBefore(e[i].index, i)
          /\ ~StoppedBefore(e[i].index, i)
     /\ \A d \in EventsOfType("message_delta") :
          /\ \A i \in starts : StoppedBefore(e[i].index, d)
          /\ \A i \in starts \cup stops \cup EventsOfType("content_block_delta") :
               i < d

\* The fragments of one upstream tool-call index are under one block index,
\* and no block holds two units.
OneBlockPerUnit ==
  LET e == probe.events
  IN \A i, j \in EventsOfType("content_block_delta")
                   \cup EventsOfType("content_block_start") :
       (e[i].unit.kind = "tool" /\ e[j].unit.kind = "tool") =>
         (e[i].index = e[j].index <=> e[i].unit = e[j].unit)

Resumed(stream, src) ==
  \E j, k \in 1..(src - 1) :
    j < k /\ stream[j] = stream[src] /\ stream[k] # stream[src]

----------------------------------------------------------------------------
(* Concurrent connections.                                                 *)

\* The retry state of a handler follows from the answers it got itself.
OwnRetryState(r) ==
  r.route = "translate" =>
    /\ Len(r.calls) <= 6
    /\ r.waits = SubSeq(BackoffSchedule, 1, Len(r.waits))
    /\ \A i \in 1..(Len(r.hist) - 1) : r.hist[i] = 429
    /\ r.pc = "openai_fetch" =>
         r.attempt = Len(r.waits) /\ Len(r.hist) = Len(r.waits)
    /\ r.pc = "openai_wait" =>
         r.attempt = Len(r.waits) - 1 /\ Len(r.hist) = Len(r.waits)

\* The route of a handler follows from its own request, and the status it
\* answers with from the last upstream answer it got itself.
OwnRouteAndResponse(r) ==
  r.route # "none" =>
    /\ r.route = (IF MessagesRoute(config, r.body.req).isPassthrough
                    THEN "passthrough" ELSE "translate")
    /\ \A i \in DOMAIN r.calls : r.calls[i] = ExpectedUrl(config, r.body.req)
    /\ (r.pc = "done" /\ r.failure = "none" /\ r.route = "passthrough")
         => r.status = r.hist[1]
    /\ (r.pc = "done" /\ r.failure = "none" /\ LoopLeft(r)
          /\ ~Ok(r.hist[Len(r.hist)]))
         => r.status = r.hist[Len(r.hist)]

\* C20: connections are independent under every interleaving: a connection
\* whose own awaits settle completes, whatever await the other connection
\* is suspended at and however long; a step of one handler changes no other
\* connection's record (the session table is all they share); and each
\* handler's retry counter, route and response follow from its own request
\* and its own upstream answers.
C20_ConnectionsIndependent ==
  /\ <>(conn[2].pc \in {"done", "unhandled"})
  /\ [](\A c \in AllConns :
          /\ OwnRetryState(conn[c])
          /\ OwnRouteAndResponse(conn[c]))
  /\ [][\A c, d \in AllConns :
          (c # d /\ conn'[c] # conn[c]) => conn'[d] = conn[d]]_vars

\* One connection in its second backoff wait while the other, rate limited
\* once itself, has finished with a 200.
C20_Witness ==
  /\ conn[1].pc = "openai_wait"
  /\ conn[1].waits = <<1000, 2000>>
  /\ conn[2].pc = "done"
  /\ conn[2].hist = <<429, 200>>
  /\ conn[2].status = 200
  /\ totalRequests = 2

\* A count_tokens request answered locally: the handler is done and did not
\* relay the request.
EstimatedLocally(r) ==
  r.endpoint = "count_tokens" /\ r.pc = "done" /\ r.route # "passthrough"

\* n is the ceiling of len / 4.
IsCeilingOfQuarter(n, len) == 4 * (n - 1) < len /\ len <= 4 * n

\* The answer with the estimate for the messages of the request: status
\* 200 and one body whose input_tokens is the ceiling of a quarter of the
\* length of the serialized messages (100 for 400 characters).
AnswersEstimate(r) ==
  /\ r.status = 200
  /\ r.headCalls = 1
  /\ ~r.destroyed =>
        /\ Len(r.out) = 1
        /\ r.out[1].type = "tokens"
        /\ IsCeilingOfQuarter(r.out[1].input_tokens,
                              MessagesJsonLength(r.body.req.messages))
        /\ (MessagesJsonLength(r.body.req.messages) = 400
              => r.out[1].input_tokens = 100)

AnswersEventStream(r) ==
  \/ r.pc \in {"chatgpt_stream", "openai_stream"}
  \/ \E i \in DOMAIN r.out : r.out[i] = JsonBody("events")

\* The response of the handler is one Anthropic Messages JSON body.
AnswersMessageJson(r) ==
  /\ r.status = 200
  /\ Len(r.out) = 1
  /\ r.out[1].type = "message"

\* The upstream call of a translated request succeeded and the handler has
\* answered it to a client that is still there.
TranslatedAndAnswered(r) ==
  /\ r.route = "translate"
  /\ r.pc = "done"
  /\ r.failure = "none"
  /\ ~r.destroyed
  /\ r.hist # <<>>
  /\ Ok(r.hist[Len(r.hist)])
  /\ r.upstream.hasBody

\* C22: a translated request that declared stream = false is answered with
\* one Anthropic Messages JSON body and never with an event stream,
\* whichever target provider is configured; a translated request whose
\* stream flag is true or absent is answered with an event stream.
C22_ResponseShapeFollowsStreamFlag ==
  \A c \in AllConns :
    LET r == conn[c]
    IN r.route = "translate" =>
         /\ r.body.req.stream = "false" =>
               /\ ~AnswersEventStream(r)
               /\ TranslatedAndAnswered(r) => AnswersMessageJson(r)
         /\ (r.body.req.stream # "false" /\ TranslatedAndAnswered(r))
               => AnswersEventStream(r)

\* The sum of the request counters of a session table.
RECURSIVE SumRequestCounts(_)
SumRequestCounts(sess) ==
  IF sess = <<>> THEN 0
  ELSE Head(sess).requestCount + SumRequestCounts(Tail(sess))

\* The step is an identify call of connection c: the handler notes the
\* session the call returned.
IdentifyCall(c) == conn[c].session = NoSession /\ conn'[c].session # NoSession

\* From table before to table after, session j (kept, or appended with a
\* counter of 0) has its counter raised by exactly 1 and every other
\* session keeps its counter and its last message count.
CountsOneSession(before, after, j) ==
  /\ Len(after) \in {Len(before), Len(before) + 1}
  /\ j \in DOMAIN after
  /\ Len(after) > Len(before) => j = Len(after)
  /\ after[j].requestCount =
       (IF j \in DOMAIN before THEN before[j].requestCount ELSE 0) + 1
  /\ \A i \in DOMAIN before :
       /\ after[i].key = before[i].key
       /\ i # j => /\ after[i].requestCount = before[i].requestCount
                   /\ after[i].lastMsgCount = before[i].lastMsgCount

\* No teammate session of table before has a lower last message count in
\* table after.
TeammateCountsKept(before, after) ==
  \A i \in TeammateSessions(before) :
    /\ i \in DOMAIN after
    /\ after[i].type = "teammate"
    /\ after[i].lastMsgCount >= before[i].lastMsgCount

\* A teammate request whose count is below the last count of every
\* teammate session of table before gets a new session in table after.
LowCountAllocates(before, after, req) ==
  LET d == MessagesRoute(config, req)
  IN (/\ d.toolCount # 0
      /\ d.isTeammate
      /\ \A i \in TeammateSessions(before) :
            d.msgCount < before[i].lastMsgCount)
       => /\ Len(after) = Len(before) + 1
          /\ after[Len(after)].type = "teammate"
          /\ after[Len(after)].lastMsgCount = d.msgCount

\* C23: under every interleaving of concurrent handlers, each identify call
\* raises the request counter of exactly one session by exactly 1 and
\* changes no other session's counter or last message count, and no other
\* step touches the table, so the sum of the request counters always equals
\* the number of identify calls made (the logger's totalRequests, raised
\* once with each call); a teammate session's last message count never
\* decreases, a teammate request with a count below every teammate
\* session's last count getting a new session.
C23_IdentifyCountsOneSession ==
  /\ [](SumRequestCounts(sessions) = totalRequests)
  /\ [][/\ (\A c \in AllConns : ~IdentifyCall(c))
             => (sessions' = sessions /\ totalRequests' = totalRequests)
        /\ \A c \in AllConns :
             IdentifyCall(c) =>
               /\ \E j \in DOMAIN sessions' :
                    /\ CountsOneSession(sessions, sessions', j)
                    /\ sessions'[j].key = conn'[c].session
               /\ totalRequests' = totalRequests + 1
               /\ \A d \in AllConns \ {c} : ~IdentifyCall(d)
               /\ LowCountAllocates(sessions, sessions', conn[c].body.req)
        /\ TeammateCountsKept(sessions, sessions')]_vars

\* Two overlapping teammate requests against a table whose teammate
\* sessions are both ahead of them: the first, still waiting for its
\* upstream, got the new session T3, and the second attached to it.
C23_Witness ==
  /\ Len(sessions) = 4
  /\ sessions[4] = Session(TeammateKey(3), "teammate", 2, 2)
  /\ sessions[1].lastMsgCount = 4
  /\ sessions[3].lastMsgCount = 30
  /\ conn[1].session = TeammateKey(3)
  /\ conn[2].session = TeammateKey(3)
  /\ conn[1].pc = "openai_fetch"
  /\ conn[2].pc = "done"
  /\ totalRequests = 5

====
